---- MODULE Spec2Model ----
(***************************************************************************)
(* Model of the barcode-driven nutrition scanner: the health score, the    *)
(* majority-improvement comparison, the search for healthier alternatives  *)
(* and the barcode decode pipeline, in the three deployment variants       *)
(* Eatelligence.py, barcode_scanner_app.py, barcode_scanner_app_streamlit. *)
(***************************************************************************)
EXTENDS Integers, Sequences, FiniteSets, TLC

VARIABLES
    variant,            \* which source file's HealthyFoodScanner is running
    pc,                 \* "start" before the call, "done" after it
    product,            \* argument of calculate_health_score
    scoreOut,           \* outcome of calculate_health_score
    current_nutrients,  \* first argument of is_healthier_option
    alt_nutrients,      \* second argument of is_healthier_option
    healthierOut,       \* outcome of is_healthier_option
    product_info,       \* source product given to find_healthier_alternatives
    health_score,       \* source score given to find_healthier_alternatives
    response,           \* what requests.get(search_url) does for this call
    altOut,             \* outcome of find_healthier_alternatives
    http_log,           \* requests issued, in order
    errors,             \* messages reported through st.error / print
    frame,              \* argument of process_frame
    decodeLog,          \* image variants handed to pyzbar.decode, in order
    frameOut,           \* outcome of process_frame
    barcode,            \* argument of get_product_info
    fetchResponse,      \* what requests.get(api_url + barcode) does for this call
    fetchOut,           \* outcome of get_product_info
    product_name,       \* product whose stores are looked up
    gemini,             \* what model.generate_content does for this lookup
    worker,             \* the pool thread running find_stores
    future,             \* outcome held by the future once the worker finished
    deadline,           \* the 10-second limit of future.result
    placeholder,        \* what results_placeholder shows
    handlerExc,         \* exception propagating out of main's handler
    session_state,      \* st.session_state: barcode_detected and product_info
    camera_input,       \* what the camera delivers to the current run of main
    clicked,            \* st.button("Scan Another Product") in the current run
    reset_button        \* the reset button is on the page

vars == <<variant, pc, product, scoreOut, current_nutrients, alt_nutrients,
          healthierOut, product_info, health_score, response, altOut,
          http_log, errors, frame, decodeLog, frameOut, barcode,
          fetchResponse, fetchOut, product_name, gemini, worker, future,
          deadline, placeholder, handlerExc, session_state, camera_input,
          clicked, reset_button>>

scoreVars     == <<product, scoreOut>>
healthierVars == <<current_nutrients, alt_nutrients, healthierOut>>
altVars       == <<product_info, health_score, response, altOut, http_log, errors>>
frameVars     == <<frame, decodeLog, frameOut>>
fetchVars     == <<barcode, fetchResponse, fetchOut>>
storeVars     == <<product_name, gemini, worker, future, deadline, placeholder,
                   handlerExc>>
sessionVars   == <<session_state, camera_input, clicked, reset_button>>

(***************************************************************************)
(* Bounds of the model.                                                    *)
(***************************************************************************)
MaxPresent == 2     \* nutrient keys present in a generated score input
MaxNutrient == 2    \* largest alternative-side value compared in is_healthier_option
MaxPool == 4        \* candidates in a search response
MaxSymbols == 3     \* symbols detected over all image variants of one frame
MaxStores == 2      \* stores in one answer of the store lookup
MaxScanPool == 1    \* candidates in the search response of a scan
MaxFilterPool == 3  \* candidates in a search response of the filter specification
MaxShots == 1       \* frames the camera delivers before the capture loop ends

(***************************************************************************)
(* Python values.  A value is a tagged record; a dict is a function from   *)
(* its keys to values, so that an absent key differs from a null value.    *)
(***************************************************************************)
None == [t |-> "none"]
Num(n) == [t |-> "num", n |-> n]
Str(s) == [t |-> "str", s |-> s]
List(l) == [t |-> "list", l |-> l]
Dict(d) == [t |-> "dict", d |-> d]
Bool(b) == [t |-> "bool", b |-> b]
Unused == [t |-> "unused"]
NoException == "none"
EmptyDict == [k \in {} |-> None]

\* Outcome of a call: it returns a value or raises an exception.
Ret(v) == [kind |-> "return", val |-> v]
Raise(e) == [kind |-> "raise", exc |-> e]
Returned(o) == o.kind = "return"
Raised(o) == o.kind = "raise"

\* dict.get(key, default)
PyGet(d, key, default) == IF key \in DOMAIN d THEN d[key] ELSE default

\* Strings that float() parses, with the number each denotes.
NumericStrings == ("0" :> 0) @@ ("3" :> 3) @@ ("12" :> 12)

\* float(value): numbers convert, numeric strings parse, other strings raise
\* ValueError, None and containers raise TypeError.
PyFloat(v) ==
    CASE v.t = "num" -> Ret(v.n)
      [] v.t = "bool" -> Ret(IF v.b THEN 1 ELSE 0)
      [] v.t = "str" -> IF v.s \in DOMAIN NumericStrings
                          THEN Ret(NumericStrings[v.s])
                          ELSE Raise("ValueError")
      [] OTHER -> Raise("TypeError")

\* Truth value of a Python object.
Truthy(v) ==
    CASE v.t = "none" -> FALSE
      [] v.t = "num" -> v.n # 0
      [] v.t = "bool" -> v.b
      [] v.t = "str" -> v.s # ""
      [] v.t = "list" -> Len(v.l) > 0
      [] v.t = "dict" -> DOMAIN v.d # {}
      [] OTHER -> TRUE

\* min(a, b) and max(a, b) of two numbers: the first unless the second beats it.
PyMin(a, b) == IF b < a THEN b ELSE a
PyMax(a, b) == IF b > a THEN b ELSE a

(***************************************************************************)
(* calculate_health_score                                                  *)
(***************************************************************************)
Variants == {"Eatelligence", "barcode_scanner_app", "barcode_scanner_app_streamlit"}

\* Mutant: the weights of sodium and fat exchanged.
negative_factors_swapped ==
    << <<"sugars_100g", -5>>, <<"saturated-fat_100g", -5>>,
       <<"sodium_100g", -3>>, <<"fat_100g", -4>> >>

negative_factors ==
    << <<"sugars_100g", -5>>, <<"saturated-fat_100g", -5>>,
       <<"sodium_100g", -4>>, <<"fat_100g", -3>> >>

positive_factors ==
    << <<"proteins_100g", 4>>, <<"fiber_100g", 4>>, <<"vitamin-d_100g", 2>>,
       <<"calcium_100g", 2>>, <<"iron_100g", 2>>, <<"potassium_100g", 2>> >>

\* Only Eatelligence.py wraps the conversion in try/except (ValueError, TypeError).
CatchesConversionErrors(v) == v = "Eatelligence"

\* One pass of "for nutrient, impact in factors.items()" from entry i on,
\* starting from `score`.
RECURSIVE FactorLoop(_, _, _, _, _)
FactorLoop(v, nutrients, factors, i, score) ==
    IF i > Len(factors) THEN Ret(score)
    ELSE LET nutrient == factors[i][1]
             impact == factors[i][2]
             value == PyGet(nutrients, nutrient, Num(0))
             f == PyFloat(value)
         IN  IF Returned(f)
               THEN FactorLoop(v, nutrients, factors, i + 1,
                               score + impact * PyMin(f.val, 10))
             ELSE IF CatchesConversionErrors(v)
               THEN FactorLoop(v, nutrients, factors, i + 1, score)
             ELSE f

\* Mutant: the upper clamp forgotten.
ClampScore_NoCeiling(score) == PyMax(1, score)

\* max(1.0, min(100.0, score))
ClampScore(score) == PyMax(1, PyMin(100, score))

\* The second loop runs on the score the first one left, unless that raised.
PositiveAfter(v, nutrients, neg) ==
    IF Raised(neg) THEN neg
    ELSE FactorLoop(v, nutrients, positive_factors, 1, neg.val)

\* The local `score` after both loops, before the clamp of the return statement.
UnclampedScore(v, p) ==
    IF PyGet(p, "nutriments", Dict(EmptyDict)).t # "dict"
      THEN Raise("AttributeError")
      ELSE PositiveAfter(v, PyGet(p, "nutriments", Dict(EmptyDict)).d,
               FactorLoop(v, PyGet(p, "nutriments", Dict(EmptyDict)).d,
                          negative_factors, 1, 50))

\* return max(1.0, min(100.0, score))
ReturnClamped(s) == IF Raised(s) THEN s ELSE Ret(ClampScore(s.val))

calculate_health_score(v, p) == ReturnClamped(UnclampedScore(v, p))

(***************************************************************************)
(* is_healthier_option                                                     *)
(***************************************************************************)
comparisons ==
    << <<"sugars_100g", "<">>, <<"fat_100g", "<">>, <<"saturated-fat_100g", "<">>,
       <<"sodium_100g", "<">>, <<"proteins_100g", ">">>, <<"fiber_100g", ">">> >>

\* Mutant: a key whose value is null or empty is taken for absent.
PyContains_ValueKnown(d, key) ==
    IF d.t = "dict" THEN Ret(key \in DOMAIN d.d /\ Truthy(d.d[key]) )
    ELSE Raise("TypeError")

\* "nutrient in d": a dict is searched for the key, None is not iterable.
PyContains(d, key) ==
    IF d.t = "dict" THEN Ret(key \in DOMAIN d.d) ELSE Raise("TypeError")

\* float(value or 0)
FloatOrZero(v) == PyFloat(IF Truthy(v) THEN v ELSE Num(0))

\* Mutant: a strict threshold.
RatioAtLeastThreshold_Strict(better_count, total_comparisons) ==
    10 * better_count > 6 * total_comparisons

\* (better_count / total_comparisons) >= 0.6 in double arithmetic.  For the
\* totals 1..6 no quotient other than 3/5 rounds to the double 0.6, and 3/5
\* rounds to exactly that double, so the test is 10 * better >= 6 * total.
RatioAtLeastThreshold(better_count, total_comparisons) ==
    10 * better_count >= 6 * total_comparisons

\* The loop over comparisons.items() from entry i on.
RECURSIVE CompareLoop(_, _, _, _, _)
CompareLoop(cur, alt, i, better_count, total_comparisons) ==
    IF i > Len(comparisons)
      THEN Ret(Bool(total_comparisons > 0
                    /\ RatioAtLeastThreshold(better_count, total_comparisons)))
    ELSE LET nutrient == comparisons[i][1]
             comparison == comparisons[i][2]
             inCur == PyContains(cur, nutrient)
         IN  IF Raised(inCur) THEN inCur
             ELSE IF ~inCur.val
               THEN CompareLoop(cur, alt, i + 1, better_count, total_comparisons)
             ELSE LET inAlt == PyContains(alt, nutrient)
                  IN  IF Raised(inAlt) THEN inAlt
                      ELSE IF ~inAlt.val
                        THEN CompareLoop(cur, alt, i + 1, better_count,
                                         total_comparisons)
                      ELSE LET current_val == FloatOrZero(cur.d[nutrient])
                               alt_val == FloatOrZero(alt.d[nutrient])
                           IN  IF Raised(current_val) THEN current_val
                               ELSE IF Raised(alt_val) THEN alt_val
                               ELSE LET better ==
                                          \/ comparison = "<" /\ alt_val.val < current_val.val
                                          \/ comparison = ">" /\ alt_val.val > current_val.val
                                    IN  CompareLoop(cur, alt, i + 1,
                                            better_count + (IF better THEN 1 ELSE 0),
                                            total_comparisons + 1)

is_healthier_option(cur, alt) == CompareLoop(cur, alt, 1, 0, 0)

(***************************************************************************)
(* find_healthier_alternatives                                             *)
(***************************************************************************)
\* Mutant: any tag at all is taken for the one looked for.
PyIn_AnyElement(x, container) ==
    IF container.t = "list" THEN Ret(Len(container.l) > 0) ELSE Raise("TypeError")

\* "x in container": a list is searched by equality, None is not iterable.
PyIn(x, container) ==
    IF container.t = "list"
      THEN Ret(\E i \in 1..Len(container.l) : container.l[i] = x)
      ELSE Raise("TypeError")

\* next((cat for cat in categories if cat), 'unknown')
RECURSIVE FirstTruthy(_, _)
FirstTruthy(l, i) ==
    IF i > Len(l) THEN Str("unknown")
    ELSE IF Truthy(l[i]) THEN l[i] ELSE FirstTruthy(l, i + 1)

main_category(info) ==
    LET categories == PyGet(info, "categories_tags", List(<<>>))
    IN  IF categories.t = "list" THEN Ret(FirstTruthy(categories.l, 1))
        ELSE Raise("TypeError")

\* The query sent to search_url.
SearchRequest(category) ==
    [url |-> "search_url", tag_0 |-> category, tag_1 |-> "united-states",
     page_size |-> 100]

\* Mutant: a candidate that merely ties the source score is let through.
ScoreBeats_OrTies(alt_score, source_score) == alt_score >= source_score

\* alt_score > health_score
ScoreBeats(alt_score, source_score) == alt_score > source_score

\* The dict appended for an accepted candidate; barcode_scanner_app.py adds
\* the store fields.
AlternativeEntry(v, candidate, alt_score) ==
    LET base == [name |-> PyGet(candidate, "product_name", Str("Unknown")),
                 brand |-> PyGet(candidate, "brands", Str("Unknown Brand")),
                 health_score |-> alt_score,
                 nutriments |-> PyGet(candidate, "nutriments", Dict(EmptyDict)),
                 serving_size |-> PyGet(candidate, "serving_size", Str("Not specified"))]
    IN  IF v = "barcode_scanner_app"
          THEN base @@ [stores |-> PyGet(candidate, "stores", Str("Not specified")),
                        locations |-> PyGet(candidate, "purchase_places", Str(""))]
          ELSE base

\* One candidate that is not the source: the list after it, or the exception
\* it raises.  The score is computed before the country filter is applied.
ConsiderCandidate(v, info, source_score, candidate, alt_score, inMarket, healthier, alternatives) ==
    IF Raised(alt_score) THEN alt_score
    ELSE IF Raised(inMarket) THEN inMarket
    ELSE IF ~inMarket.val THEN Ret(alternatives)
    ELSE IF ~ScoreBeats(alt_score.val, source_score) THEN Ret(alternatives)
    ELSE IF Raised(healthier) THEN healthier
    ELSE IF ~healthier.val.b THEN Ret(alternatives)
    ELSE Ret(Append(alternatives, AlternativeEntry(v, candidate, alt_score.val)))

\* "for product in products" from entry i on; `alternatives` is the list so far.
RECURSIVE CandidateLoop(_, _, _, _, _, _)
RECURSIVE AfterCandidate(_, _, _, _, _, _)
AfterCandidate(v, info, source_score, products, i, step) ==
    IF Raised(step) THEN step
    ELSE CandidateLoop(v, info, source_score, products, i + 1, step.val)

CandidateLoop(v, info, source_score, products, i, alternatives) ==
    IF i > Len(products) THEN Ret(alternatives)
    ELSE IF PyGet(products[i], "code", None) = PyGet(info, "code", None)
      THEN CandidateLoop(v, info, source_score, products, i + 1, alternatives)
    ELSE AfterCandidate(v, info, source_score, products, i,
             ConsiderCandidate(v, info, source_score, products[i],
                 calculate_health_score(v, products[i]),
                 PyIn(Str("en:united-states"),
                      PyGet(products[i], "countries_tags", List(<<>>))),
                 is_healthier_option(PyGet(info, "nutriments", Dict(EmptyDict)),
                                     PyGet(products[i], "nutriments", Dict(EmptyDict))),
                 alternatives))

\* Mutant: ascending order (reverse=True forgotten).
SortsBefore_Ascending(a, b) == a.health_score < b.health_score

\* Whether a must precede b under key=health_score, reverse=True.
SortsBefore(a, b) == a.health_score > b.health_score

\* list.sort is stable: x goes after every entry that does not sort after it.
RECURSIVE InsertSorted(_, _)
InsertSorted(x, sorted) ==
    IF sorted = <<>> THEN <<x>>
    ELSE IF SortsBefore(x, Head(sorted)) THEN <<x>> \o sorted
    ELSE <<Head(sorted)>> \o InsertSorted(x, Tail(sorted))

RECURSIVE SortAlternatives(_, _, _)
SortAlternatives(alternatives, i, sorted) ==
    IF i > Len(alternatives) THEN sorted
    ELSE SortAlternatives(alternatives, i + 1, InsertSorted(alternatives[i], sorted))

\* Mutant: the cap tested one entry too late.
CapReached_Late(unique_alts) == Len(unique_alts) > 3

\* len(unique_alts) >= 3
CapReached(unique_alts) == Len(unique_alts) >= 3

\* The de-duplication loop over the sorted alternatives from entry i on.
RECURSIVE UniqueLoop(_, _, _, _)
UniqueLoop(alternatives, i, seen, unique_alts) ==
    IF i > Len(alternatives) THEN unique_alts
    ELSE IF alternatives[i].name \in seen
      THEN UniqueLoop(alternatives, i + 1, seen, unique_alts)
    ELSE LET grown == Append(unique_alts, alternatives[i])
         IN  IF CapReached(grown) THEN grown
             ELSE UniqueLoop(alternatives, i + 1,
                             seen \cup {alternatives[i].name}, grown)

\* How the error is shown: print in the command-line variant, st.error otherwise.
ErrorChannel(v) == IF v = "barcode_scanner_app" THEN "print" ELSE "st.error"

\* Mutant: the sort is left out before the de-duplication.
RankAndDeduplicate_Unsorted(found) ==
    IF Raised(found) THEN found
    ELSE Ret(List(UniqueLoop(found.val, 1, {}, <<>>)))

\* Lines 178-189: sort by score, best first, then keep the first entry of
\* each name up to the cap.  An exception raised in the loop passes through.
RankAndDeduplicate(found) ==
    IF Raised(found) THEN found
    ELSE Ret(List(UniqueLoop(SortAlternatives(found.val, 1, <<>>), 1, {}, <<>>)))

\* The body of the try statement: the value returned, or the exception that
\* reaches the except clause.  A status other than 200 skips the if block and
\* falls off the end of the function.
SearchBody(v, info, source_score, resp) ==
    IF resp.kind = "exception" THEN Raise(resp.exc)
    ELSE IF resp.status_code # 200 THEN Ret(None)
    ELSE IF ~resp.json.ok THEN Raise("JSONDecodeError")
    ELSE IF PyGet(resp.json.body, "products", List(<<>>)).t # "list"
      THEN Raise("TypeError")
    ELSE RankAndDeduplicate(
             CandidateLoop(v, info, source_score,
                           PyGet(resp.json.body, "products", List(<<>>)).l, 1, <<>>))

\* except Exception as e: report the error and return [].
HandleSearch(v, category, body) ==
    IF Raised(body)
      THEN [out |-> Ret(List(<<>>)),
            requests |-> <<SearchRequest(category)>>,
            reported |-> <<[channel |-> ErrorChannel(v),
                            msg |-> "Error finding alternatives",
                            exc |-> body.exc]>>]
      ELSE [out |-> body, requests |-> <<SearchRequest(category)>>, reported |-> <<>>]

\* find_healthier_alternatives(product_info, health_score) against a search
\* endpoint that behaves as `resp`: the outcome, the requests issued and the
\* errors reported.  The category is derived before the try statement.
find_healthier_alternatives(v, info, source_score, resp) ==
    IF Raised(main_category(info))
      THEN [out |-> main_category(info), requests |-> <<>>, reported |-> <<>>]
      ELSE HandleSearch(v, main_category(info).val,
                        SearchBody(v, info, source_score, resp))

(***************************************************************************)
(* process_frame                                                           *)
(***************************************************************************)
\* The two files that define process_frame: Eatelligence.py preprocesses,
\* barcode_scanner_app_streamlit.py decodes the raw frame.
FrameVariants == {"Eatelligence", "barcode_scanner_app_streamlit"}

\* A frame is None, an image, or an object the imaging library rejects.  An
\* image is described by what pyzbar.decode detects in each rendering of it:
\* a sequence of symbols, each with its payload bytes.
Image(symbols) == [t |-> "image", symbols |-> symbols]
Malformed == [t |-> "malformed"]
Bytes(text, utf8) == [text |-> text, utf8 |-> utf8]

\* data.decode("utf-8")
Utf8Decode(data) ==
    IF data.utf8 THEN Ret(Str(data.text)) ELSE Raise("UnicodeDecodeError")

\* Mutant: the thresholded image tried first.
methods_reordered == <<"threshold", "gray", "equalized", "blurred">>

\* The list `methods`, in the order it is built.
methods == <<"gray", "equalized", "blurred", "threshold">>

\* "for processed in methods" from entry i on; `decodes` lists the renderings
\* handed to pyzbar.decode so far.
RECURSIVE MethodLoop(_, _, _)
MethodLoop(image, i, decodes) ==
    IF i > Len(methods) THEN [out |-> Ret(None), decodes |-> decodes]
    ELSE IF image.symbols[methods[i]] # <<>>
      THEN [out |-> Utf8Decode(image.symbols[methods[i]][1]),
            decodes |-> Append(decodes, methods[i])]
    ELSE MethodLoop(image, i + 1, Append(decodes, methods[i]))

\* Eatelligence.py: cv2.cvtColor is called on every frame that is not None,
\* outside any try statement, and raises cv2.error on an object that is not
\* a colour image.
process_frame_preprocessing(f) ==
    IF f = None THEN [out |-> Ret(None), decodes |-> <<>>]
    ELSE IF f.t # "image" THEN [out |-> Raise("cv2.error"), decodes |-> <<>>]
    ELSE MethodLoop(f, 1, <<>>)

\* barcode_scanner_app_streamlit.py: pyzbar.decode on the frame itself, which
\* raises on an object that is not an image; the first symbol is returned.
process_frame_raw(f) ==
    IF f = None THEN [out |-> Ret(None), decodes |-> <<>>]
    ELSE IF f.t # "image" THEN [out |-> Raise("PyZbarError"), decodes |-> <<>>]
    ELSE IF f.symbols["raw"] # <<>>
      THEN [out |-> Utf8Decode(f.symbols["raw"][1]), decodes |-> <<"raw">>]
    ELSE [out |-> Ret(None), decodes |-> <<"raw">>]

process_frame(v, f) ==
    IF v = "Eatelligence" THEN process_frame_preprocessing(f)
    ELSE process_frame_raw(f)

(***************************************************************************)
(* Inputs of the scoring specification.                                    *)
(***************************************************************************)
ScoreKeys ==
    {negative_factors[i][1] : i \in 1..Len(negative_factors)} \cup
    {positive_factors[i][1] : i \in 1..Len(positive_factors)}

ScoreValues ==
    {Num(0), Num(2), Num(10), Num(40), None, Str("abc"), Str("3")}

\* Nutriment dicts with at most MaxPresent of the scored keys present.
BoundedNutriments ==
    UNION {[S -> ScoreValues] :
             S \in {T \in SUBSET ScoreKeys : Cardinality(T) <= MaxPresent}}

\* The end-to-end profile of the specification.
ExampleNutriments ==
    [k \in {"sugars_100g", "fat_100g", "saturated-fat_100g", "sodium_100g",
            "proteins_100g", "fiber_100g"} |->
       CASE k = "sugars_100g" -> Num(40)
         [] k = "fat_100g" -> Num(20)
         [] k = "saturated-fat_100g" -> Num(15)
         [] k = "sodium_100g" -> Num(800)
         [] k = "proteins_100g" -> Num(2)
         [] k = "fiber_100g" -> Num(1)]

\* Every scored nutrient present and far above the cap.
SaturatedNutriments == [k \in ScoreKeys |-> Num(800)]

\* Every beneficial nutrient at the cap, no harmful one.
BestNutriments ==
    [k \in {positive_factors[i][1] : i \in 1..Len(positive_factors)} |-> Num(10)]

ScoreInputs ==
    {[nutriments |-> Dict(n)] :
        n \in BoundedNutriments \cup
              {ExampleNutriments, SaturatedNutriments, BestNutriments}}
    \cup {[product_name |-> Str("no nutriments")],
          [nutriments |-> None]}

IdleScore == product = Unused /\ scoreOut = Unused
IdleHealthier ==
    current_nutrients = Unused /\ alt_nutrients = Unused /\ healthierOut = Unused
IdleAlt ==
    /\ product_info = Unused /\ health_score = Unused /\ response = Unused
    /\ altOut = Unused /\ http_log = <<>> /\ errors = <<>>
IdleFrame == frame = Unused /\ decodeLog = <<>> /\ frameOut = Unused
IdleFetch == barcode = Unused /\ fetchResponse = Unused /\ fetchOut = Unused
IdleStores ==
    /\ product_name = Unused /\ gemini = Unused /\ worker = "idle"
    /\ future = Unused /\ deadline = "unset" /\ placeholder = <<>>
    /\ handlerExc = NoException
IdleSession ==
    /\ session_state = Unused /\ camera_input = Unused
    /\ clicked = FALSE /\ reset_button = FALSE

InitScore ==
    /\ variant \in Variants
    /\ pc = "start"
    /\ product \in ScoreInputs
    /\ scoreOut = Unused
    /\ IdleHealthier /\ IdleAlt /\ IdleFrame /\ IdleFetch /\ IdleStores /\ IdleSession

\* A call of calculate_health_score(product).
CalculateHealthScore ==
    /\ pc = "start"
    /\ product # Unused
    /\ scoreOut' = calculate_health_score(variant, product)
    /\ pc' = "done"
    /\ UNCHANGED <<sessionVars, variant, product, healthierVars, altVars, frameVars,
                   fetchVars, storeVars>>

NextScore == CalculateHealthScore

SpecScore == InitScore /\ [][NextScore]_vars

(***************************************************************************)
(* Inputs of the comparison specification.                                 *)
(***************************************************************************)
ComparedKeys == {comparisons[i][1] : i \in 1..Len(comparisons)}

\* The majority-improvement example of the specification.
ExampleCurrent ==
    [k \in ComparedKeys |->
       IF k \in {"proteins_100g", "fiber_100g"} THEN Num(0) ELSE Num(10)]
ExampleAlternative ==
    [k \in ComparedKeys |->
       CASE k = "sodium_100g" -> Num(10)
         [] k \in {"proteins_100g", "fiber_100g"} -> Num(5)
         [] OTHER -> Num(1)]

CurrentArguments ==
    { Dict([k \in ComparedKeys |-> Num(1)]),
      Dict(ExampleCurrent),
      Dict([k \in {"sugars_100g", "proteins_100g", "fiber_100g"} |->
              CASE k = "sugars_100g" -> Num(1)
                [] k = "proteins_100g" -> None
                [] OTHER -> Str("")]),
      Dict([k \in {"sugars_100g", "fat_100g"} |->
              IF k = "sugars_100g" THEN Str("abc") ELSE Num(1)]),
      Dict(EmptyDict),
      None }

AltValues == {Num(i) : i \in 0..MaxNutrient} \cup {None}

AltArguments ==
    {Dict(d) : d \in UNION {[S -> AltValues] : S \in SUBSET ComparedKeys}}
    \cup { Dict(ExampleAlternative),
           Dict([k \in {"fat_100g"} |-> Str("abc")]),
           None }

InitHealthier ==
    /\ variant \in Variants
    /\ pc = "start"
    /\ current_nutrients \in CurrentArguments
    /\ alt_nutrients \in AltArguments
    /\ healthierOut = Unused
    /\ IdleScore /\ IdleAlt /\ IdleFrame /\ IdleFetch /\ IdleStores /\ IdleSession

\* A call of is_healthier_option(current_nutrients, alt_nutrients).
IsHealthierOption ==
    /\ pc = "start"
    /\ current_nutrients # Unused
    /\ healthierOut' = is_healthier_option(current_nutrients, alt_nutrients)
    /\ pc' = "done"
    /\ UNCHANGED <<sessionVars, variant, current_nutrients, alt_nutrients,
                   scoreVars, altVars, frameVars, fetchVars, storeVars>>

NextHealthier == IsHealthierOption

SpecHealthier == InitHealthier /\ [][NextHealthier]_vars

(***************************************************************************)
(* Inputs of the alternative-search specification.                         *)
(***************************************************************************)
Nutr(sugars, fat, proteins, fiber) ==
    Dict(("sugars_100g" :> Num(sugars)) @@ ("fat_100g" :> Num(fat)) @@
         ("proteins_100g" :> Num(proteins)) @@ ("fiber_100g" :> Num(fiber)))

WithSodium(n, sodium) == Dict(n.d @@ ("sodium_100g" :> Num(sodium)))

InMarket == List(<<Str("en:united-states")>>)

Candidate(code, name, nutriments, countries) ==
    [code |-> Str(code), product_name |-> Str(name), brands |-> Str("Brand " \o code),
     nutriments |-> nutriments, countries_tags |-> countries]

\* The scanned product: score 50 - 20 - 12 + 8 + 8 = 34.
SourceProduct ==
    [code |-> Str("100"), product_name |-> Str("Choco Bar"),
     categories_tags |-> List(<<Str(""), Str("en:snacks")>>),
     nutriments |-> Nutr(4, 4, 2, 2), countries_tags |-> InMarket]

SourceWithoutCategories ==
    [code |-> Str("100"), product_name |-> Str("Choco Bar"),
     nutriments |-> Nutr(4, 4, 2, 2)]

SourceWithNullCategories ==
    [code |-> Str("100"), product_name |-> Str("Choco Bar"),
     categories_tags |-> None, nutriments |-> Nutr(4, 4, 2, 2)]

Sources == {SourceProduct, SourceWithoutCategories, SourceWithNullCategories}

Catalog ==
    { Candidate("201", "Oat Bar", Nutr(1, 1, 5, 5), InMarket),          \* 82, better on 4 of 4
      Candidate("202", "Oat Bar", Nutr(2, 2, 3, 3), InMarket),          \* 58, same name
      Candidate("203", "Rice Cake", Nutr(3, 3, 3, 3), InMarket),        \* 50
      Candidate("204", "Bran Flakes", Nutr(1, 2, 4, 3), InMarket),      \* 67
      [code |-> Str("205"), nutriments |-> Nutr(0, 0, 4, 4),
       countries_tags |-> InMarket],                                    \* 82, no name
      Candidate("206", "Granola", Nutr(2, 5, 3, 2), InMarket),          \* 45, better on 2 of 4
      Candidate("207", "Tie", WithSodium(Nutr(3, 3, 3, 2), 3), InMarket),     \* 34, 3 of 4
      Candidate("209", "Null Bar",
                Dict(Nutr(1, 1, 5, 5).d @@ ("sodium_100g" :> None)), InMarket),
      Candidate("210", "Import", Nutr(1, 1, 5, 5), List(<<Str("en:france")>>)),
      SourceProduct }

\* Search results of at most MaxPool products, none listed twice.
Pools ==
    {pool \in UNION {[1..n -> Catalog] : n \in 0..MaxPool} :
        \A i, j \in 1..Len(pool) : pool[i] = pool[j] => i = j}

OkResponse(body) ==
    [kind |-> "response", status_code |-> 200, json |-> [ok |-> TRUE, body |-> body]]

FailedResponses ==
    { [kind |-> "exception", exc |-> "ConnectionError"],
      [kind |-> "response", status_code |-> 404, json |-> [ok |-> FALSE]],
      [kind |-> "response", status_code |-> 500,
       json |-> [ok |-> TRUE, body |-> [products |-> List(<<>>)]]],
      [kind |-> "response", status_code |-> 200, json |-> [ok |-> FALSE]],
      OkResponse([products |-> None]) }

Scenarios ==
    {[info |-> SourceProduct, resp |-> OkResponse([products |-> List(pool)])] :
        pool \in Pools}
    \cup {[info |-> i, resp |-> r] :
            i \in Sources, r \in FailedResponses \cup {OkResponse([count |-> Num(0)])}}

InitAlternatives ==
    /\ variant \in Variants
    /\ pc = "start"
    /\ \E sc \in Scenarios : product_info = sc.info /\ response = sc.resp
    /\ health_score = calculate_health_score(variant, product_info).val
    /\ altOut = Unused /\ http_log = <<>> /\ errors = <<>>
    /\ IdleScore /\ IdleHealthier /\ IdleFrame /\ IdleFetch /\ IdleStores /\ IdleSession

\* A call of find_healthier_alternatives(product_info, health_score).
FindHealthierAlternatives ==
    /\ pc = "start"
    /\ product_info # Unused
    /\ \E r \in {find_healthier_alternatives(variant, product_info, health_score, response)} :
           /\ altOut' = r.out
           /\ http_log' = http_log \o r.requests
           /\ errors' = errors \o r.reported
    /\ pc' = "done"
    /\ UNCHANGED <<sessionVars, variant, product_info, health_score, response,
                   scoreVars, healthierVars, frameVars, fetchVars, storeVars>>

NextAlternatives == FindHealthierAlternatives

SpecAlternatives == InitAlternatives /\ [][NextAlternatives]_vars

(***************************************************************************)
(* Inputs of the barcode-acquisition specification.                        *)
(***************************************************************************)
Payloads == {Bytes("0123456789012", TRUE), Bytes("96385074", TRUE), Bytes("", FALSE)}

SymbolLists(n) == [1..n -> Payloads]

\* How many symbols each rendering shows: at most MaxSymbols over all of them.
SymbolCounts ==
    {c \in [{methods[i] : i \in 1..Len(methods)} -> 0..MaxSymbols] :
        c["gray"] + c["equalized"] + c["blurred"] + c["threshold"] <= MaxSymbols}

PreprocessedImages ==
    UNION {{Image([gray |-> g, equalized |-> e, blurred |-> b, threshold |-> t]) :
              g \in SymbolLists(c["gray"]), e \in SymbolLists(c["equalized"]),
              b \in SymbolLists(c["blurred"]), t \in SymbolLists(c["threshold"])} :
           c \in SymbolCounts}

RawImages == UNION {{Image([raw |-> r]) : r \in SymbolLists(n)} : n \in 0..MaxSymbols}

Images(v) == IF v = "Eatelligence" THEN PreprocessedImages ELSE RawImages

InitFrame ==
    /\ variant \in FrameVariants
    /\ pc = "start"
    /\ frame \in {None, Malformed} \cup Images(variant)
    /\ decodeLog = <<>> /\ frameOut = Unused
    /\ IdleScore /\ IdleHealthier /\ IdleAlt /\ IdleFetch /\ IdleStores /\ IdleSession

\* A call of process_frame(frame).
ProcessFrame ==
    /\ pc = "start"
    /\ frame # Unused
    /\ \E r \in {process_frame(variant, frame)} :
           /\ frameOut' = r.out
           /\ decodeLog' = decodeLog \o r.decodes
    /\ pc' = "done"
    /\ UNCHANGED <<sessionVars, variant, frame, scoreVars, healthierVars, altVars,
                   fetchVars, storeVars>>

NextFrame == ProcessFrame

SpecFrame == InitFrame /\ [][NextFrame]_vars

(***************************************************************************)
(* Properties of calculate_health_score (checked under SpecScore).         *)
(***************************************************************************)
HasNutrimentDict(p) == PyGet(p, "nutriments", Dict(EmptyDict)).t = "dict"
NutrimentsOf(p) == PyGet(p, "nutriments", Dict(EmptyDict)).d

\* Every scored nutrient that is present holds a number.
NumericProfile(p) ==
    /\ HasNutrimentDict(p)
    /\ \A k \in DOMAIN NutrimentsOf(p) \cap ScoreKeys : NutrimentsOf(p)[k].t = "num"

\* min(value, 10) of the reference formula, an absent nutrient counted as 0.
Capped(n, k) == IF k \notin DOMAIN n THEN 0 ELSE IF n[k].n > 10 THEN 10 ELSE n[k].n

ReferenceSum(n) ==
    50 - 5 * Capped(n, "sugars_100g") - 5 * Capped(n, "saturated-fat_100g")
       - 4 * Capped(n, "sodium_100g") - 3 * Capped(n, "fat_100g")
       + 4 * Capped(n, "proteins_100g") + 4 * Capped(n, "fiber_100g")
       + 2 * Capped(n, "vitamin-d_100g") + 2 * Capped(n, "calcium_100g")
       + 2 * Capped(n, "iron_100g") + 2 * Capped(n, "potassium_100g")

ReferenceScore(n) ==
    IF ReferenceSum(n) < 1 THEN 1
    ELSE IF ReferenceSum(n) > 100 THEN 100 ELSE ReferenceSum(n)

\* C1: for every nutriments mapping with numeric values (any subset of the
\* keys, values far above 10 included) calculate_health_score returns a
\* value v with 1.0 <= v <= 100.0, in every variant.
C1_ScoreWithinBounds ==
    (pc = "done" /\ NumericProfile(product)) =>
        /\ Returned(scoreOut)
        /\ 1 <= scoreOut.val /\ scoreOut.val <= 100

\* C1 witness: a numeric profile whose sum exceeds 100 was scored and clamped.
C1_Witness ==
    /\ pc = "done" /\ NumericProfile(product)
    /\ DOMAIN NutrimentsOf(product) # {}
    /\ ReferenceSum(NutrimentsOf(product)) > 100
    /\ scoreOut = Ret(100)

\* C2: on numeric profiles calculate_health_score equals the reference
\* formula clamp(50 - 5 min(sugars,10) - ... + 2 min(potassium,10), 1, 100)
\* with absent nutrients counted as 0; a profile with every nutrient absent
\* scores exactly 50; the end-to-end example sums to -108 and scores 1.
C2_ScoreEqualsReference ==
    (pc = "done" /\ NumericProfile(product)) =>
        /\ scoreOut = Ret(ReferenceScore(NutrimentsOf(product)))
        /\ (DOMAIN NutrimentsOf(product) \cap ScoreKeys = {}) => scoreOut = Ret(50)
        /\ (NutrimentsOf(product) = ExampleNutriments) =>
               /\ UnclampedScore(variant, product) = Ret(-108)
               /\ scoreOut = Ret(1)

\* C2 witness: the end-to-end example was scored, -108 before the clamp.
C2_Witness ==
    /\ pc = "done"
    /\ HasNutrimentDict(product) /\ NutrimentsOf(product) = ExampleNutriments
    /\ UnclampedScore(variant, product) = Ret(-108)
    /\ scoreOut = Ret(1)

\* The profile without the entries whose value float() rejects.
ConvertibleOnly(n) ==
    [k \in {j \in DOMAIN n : Returned(PyFloat(n[j]))} |-> Num(PyFloat(n[k]).val)]

\* C3: in every variant a nutrient whose value is missing, null or
\* non-numeric contributes 0 and a score is still returned: the call never
\* raises and the result is the score of the remaining nutrients.
C3_MalformedValueCountsAsZero ==
    (pc = "done" /\ HasNutrimentDict(product)) =>
        scoreOut = Ret(ReferenceScore(ConvertibleOnly(NutrimentsOf(product))))

\* C3 as the code of Eatelligence.py meets it: that variant alone skips a
\* value float() rejects.
C3_HoldsInEatelligence ==
    (pc = "done" /\ HasNutrimentDict(product) /\ variant = "Eatelligence") =>
        scoreOut = Ret(ReferenceScore(ConvertibleOnly(NutrimentsOf(product))))

(***************************************************************************)
(* Properties of is_healthier_option (checked under SpecHealthier).        *)
(***************************************************************************)
\* Both arguments are dicts whose compared values are all numbers.
NumericPair(cur, alt) ==
    /\ cur.t = "dict" /\ alt.t = "dict"
    /\ \A k \in DOMAIN cur.d \cap ComparedKeys : cur.d[k].t = "num"
    /\ \A k \in DOMAIN alt.d \cap ComparedKeys : alt.d[k].t = "num"

LowerIsBetter == {"sugars_100g", "fat_100g", "saturated-fat_100g", "sodium_100g"}
HigherIsBetter == {"proteins_100g", "fiber_100g"}

DefinedPairs(cur, alt) == ComparedKeys \cap DOMAIN cur.d \cap DOMAIN alt.d
SatisfiedPairs(cur, alt) ==
    {k \in DefinedPairs(cur, alt) :
        \/ k \in LowerIsBetter /\ alt.d[k].n < cur.d[k].n
        \/ k \in HigherIsBetter /\ alt.d[k].n > cur.d[k].n}
NDefined == Cardinality(DefinedPairs(current_nutrients, alt_nutrients))
NSatisfied == Cardinality(SatisfiedPairs(current_nutrients, alt_nutrients))

\* C7: on numeric profiles is_healthier_option returns true exactly when
\* the number of pairs defined on both sides is positive and
\* satisfied/defined >= 0.6 (lower sugars, fat, saturated fat, sodium;
\* higher protein, fiber; equal values defined but not satisfied): 3 of 5
\* and 5 of 6 are accepted, 1 of 2, 3 of 6 and zero defined are rejected.
C7_MajorityImprovement ==
    (pc = "done" /\ NumericPair(current_nutrients, alt_nutrients)) =>
        /\ Returned(healthierOut)
        /\ healthierOut.val.b <=> (NDefined > 0 /\ 10 * NSatisfied >= 6 * NDefined)
        /\ (NDefined = 5 /\ NSatisfied = 3) => healthierOut.val.b
        /\ (NDefined = 6 /\ NSatisfied = 5) => healthierOut.val.b
        /\ (NDefined = 2 /\ NSatisfied = 1) => ~healthierOut.val.b
        /\ (NDefined = 6 /\ NSatisfied = 3) => ~healthierOut.val.b
        /\ (NDefined = 0) => ~healthierOut.val.b

\* C7 witness: exactly 3 of 5 defined pairs are satisfied, one of the others
\* being a tie, and the alternative is accepted.
C7_Witness ==
    /\ pc = "done" /\ NumericPair(current_nutrients, alt_nutrients)
    /\ NDefined = 5 /\ NSatisfied = 3
    /\ \E k \in DefinedPairs(current_nutrients, alt_nutrients) :
          current_nutrients.d[k] = alt_nutrients.d[k]
    /\ healthierOut = Ret(Bool(TRUE))

(***************************************************************************)
(* Properties of find_healthier_alternatives (checked under                *)
(* SpecAlternatives).                                                      *)
(***************************************************************************)
\* The call returned a list (it neither raised nor returned None).
ReturnedList == pc = "done" /\ Returned(altOut) /\ altOut.val.t = "list"
Alternatives == altOut.val.l

\* The response delivered a candidate pool.
PoolReceived ==
    /\ http_log # <<>>
    /\ response.kind = "response" /\ response.status_code = 200
    /\ response.json.ok
    /\ PyGet(response.json.body, "products", List(<<>>)).t = "list"
Pool == PyGet(response.json.body, "products", List(<<>>)).l

SourceNutriments == PyGet(product_info, "nutriments", Dict(EmptyDict))
CandidateNutriments(c) == PyGet(c, "nutriments", Dict(EmptyDict))
CandidateName(c) == PyGet(c, "product_name", Str("Unknown"))
CandidateScore(c) == calculate_health_score(variant, c)

\* The candidate passes every test of the loop.
Accepted(c) ==
    /\ PyGet(c, "code", None) # PyGet(product_info, "code", None)
    /\ PyIn(Str("en:united-states"), PyGet(c, "countries_tags", List(<<>>)))
         = Ret(TRUE)
    /\ Returned(CandidateScore(c)) /\ CandidateScore(c).val > health_score
    /\ is_healthier_option(SourceNutriments, CandidateNutriments(c)) = Ret(Bool(TRUE))

\* C4: every alternative returned has a health score strictly greater than
\* the source product's score and passes is_healthier_option against the
\* source's nutrients, and is a candidate of the pool with that score; when
\* every candidate of the pool scores lower than or equal to the source, the
\* result is empty.
C4_AlternativesBeatSource ==
    /\ ReturnedList =>
         \A k \in 1..Len(Alternatives) :
            /\ Alternatives[k].health_score > health_score
            /\ is_healthier_option(SourceNutriments, Alternatives[k].nutriments)
                 = Ret(Bool(TRUE))
            /\ \E i \in 1..Len(Pool) :
                 /\ CandidateScore(Pool[i]) = Ret(Alternatives[k].health_score)
                 /\ CandidateNutriments(Pool[i]) = Alternatives[k].nutriments
                 /\ CandidateName(Pool[i]) = Alternatives[k].name
    /\ ( /\ pc = "done" /\ PoolReceived
         /\ \A i \in 1..Len(Pool) :
              /\ Returned(CandidateScore(Pool[i]))
              /\ CandidateScore(Pool[i]).val <= health_score )
       => altOut = Ret(List(<<>>))

\* C4 witness: the pool holds a candidate that ties the source score and
\* would pass the nutrient comparison, next to one that beats it; only the
\* latter is returned.
C4_Witness ==
    /\ ReturnedList /\ PoolReceived
    /\ Len(Alternatives) = 1
    /\ \E i \in 1..Len(Pool) :
         /\ CandidateScore(Pool[i]) = Ret(health_score)
         /\ PyGet(Pool[i], "code", None) # PyGet(product_info, "code", None)
         /\ is_healthier_option(SourceNutriments, CandidateNutriments(Pool[i]))
              = Ret(Bool(TRUE))
    /\ \E i \in 1..Len(Pool) : Accepted(Pool[i])

\* C5: for a candidate pool of any size and content the returned list has at
\* most 3 entries and no two entries share a display name.
C5_AtMostThreeDistinctNames ==
    ReturnedList =>
        /\ Len(Alternatives) <= 3
        /\ \A j, k \in 1..Len(Alternatives) :
             Alternatives[j].name = Alternatives[k].name => j = k

\* C5 witness: four candidates with four different names are accepted and
\* three are returned.
C5_Witness ==
    /\ ReturnedList /\ PoolReceived
    /\ Cardinality({CandidateName(Pool[i]) :
                      i \in {j \in 1..Len(Pool) : Accepted(Pool[j])}}) = 4
    /\ Len(Alternatives) = 3

\* C6: the returned list is ordered best-first: of two consecutive entries
\* the earlier one's health_score is greater than or equal to the later one's.
C6_BestFirst ==
    ReturnedList =>
        \A k \in 1..(Len(Alternatives) - 1) :
            Alternatives[k].health_score >= Alternatives[k + 1].health_score

\* C6 witness: the pool lists a lower-scored accepted candidate before a
\* higher-scored one, and the result lists them best first.
C6_Witness ==
    /\ ReturnedList /\ PoolReceived
    /\ Len(Alternatives) >= 2
    /\ Alternatives[1].health_score > Alternatives[2].health_score
    /\ \E i, j \in 1..Len(Pool) :
         /\ i < j /\ Accepted(Pool[i]) /\ Accepted(Pool[j])
         /\ CandidateScore(Pool[i]).val < CandidateScore(Pool[j]).val
         /\ CandidateName(Pool[j]) = Alternatives[1].name
         /\ CandidateName(Pool[i]) = Alternatives[2].name

\* The search failed: the request raised, the status was not a success, the
\* body could not be parsed, or processing a candidate raised (every
\* exception inside the try statement is reported).
SearchFailed ==
    \/ response.kind = "exception"
    \/ response.kind = "response" /\ response.status_code # 200
    \/ response.kind = "response" /\ ~response.json.ok
    \/ errors # <<>>

\* C8: whenever the alternative search fails, find_healthier_alternatives
\* returns an empty list: never a partial list, never a non-list value.
C8_FailureYieldsEmptyList ==
    (pc = "done" /\ Returned(main_category(product_info)) /\ SearchFailed) =>
        altOut = Ret(List(<<>>))

\* C8 as the code meets it: an exception inside the try statement yields an
\* empty list; a non-success status yields None.
C8_ExceptionYieldsEmptyList ==
    /\ (pc = "done" /\ errors # <<>>) => altOut = Ret(List(<<>>))
    /\ ( /\ pc = "done" /\ Returned(main_category(product_info))
         /\ response.kind = "response" /\ response.status_code # 200 )
       => altOut = Ret(None)

(***************************************************************************)
(* Properties of process_frame (checked under SpecFrame).                  *)
(***************************************************************************)
FixedOrder == <<"gray", "equalized", "blurred", "threshold">>

\* C9: on a frame that is an image, the preprocessing process_frame decodes
\* the renderings in the fixed order plain grayscale, histogram-equalized,
\* Gaussian-blurred, adaptive-threshold; it returns the payload of the first
\* symbol of the first rendering with a detection, decodes no later
\* rendering, combines nothing, and returns None only after all four
\* renderings gave no detection.
C9_FirstDetectingVariantWins ==
    (pc = "done" /\ variant = "Eatelligence" /\ frame.t = "image") =>
        /\ Len(decodeLog) \in 1..4
        /\ decodeLog = SubSeq(FixedOrder, 1, Len(decodeLog))
        /\ \A k \in 1..(Len(decodeLog) - 1) : frame.symbols[FixedOrder[k]] = <<>>
        /\ (Returned(frameOut) /\ frameOut.val # None) =>
              /\ frame.symbols[FixedOrder[Len(decodeLog)]] # <<>>
              /\ frameOut.val =
                   Str(frame.symbols[FixedOrder[Len(decodeLog)]][1].text)
        /\ (frameOut = Ret(None)) =>
              /\ decodeLog = FixedOrder
              /\ \A k \in 1..4 : frame.symbols[FixedOrder[k]] = <<>>
        /\ (\A k \in 1..4 : frame.symbols[FixedOrder[k]] = <<>>) => frameOut = Ret(None)

\* C9 witness: nothing in the grayscale image, two symbols in the equalized
\* one, another payload in a later rendering; the first equalized symbol is
\* returned after two decode attempts.
C9_Witness ==
    /\ pc = "done" /\ variant = "Eatelligence" /\ frame.t = "image"
    /\ frame.symbols["gray"] = <<>>
    /\ Len(frame.symbols["equalized"]) = 2
    /\ frame.symbols["equalized"][1] # frame.symbols["equalized"][2]
    /\ frame.symbols["blurred"] # <<>>
    /\ frame.symbols["blurred"][1] # frame.symbols["equalized"][1]
    /\ decodeLog = <<"gray", "equalized">>
    /\ frameOut = Ret(Str(frame.symbols["equalized"][1].text))

\* A frame from which no barcode can be read: absent, rejected by the
\* imaging library, or an image without a detection in any rendering.
NothingToRead(f) ==
    \/ f = None
    \/ f = Malformed
    \/ f.t = "image" /\ \A k \in DOMAIN f.symbols : f.symbols[k] = <<>>

\* C10: barcode acquisition never raises: for an absent, blank, unreadable
\* or malformed frame process_frame returns None, in the preprocessing and
\* in the raw-frame variant.
C10_NeverRaises ==
    (pc = "done" /\ NothingToRead(frame)) => frameOut = Ret(None)

\* C10 as the code meets it: None is returned for an absent frame and for an
\* image without detections; an object that is not an image raises.
C10_AbsentOrBlankGivesNone ==
    /\ (pc = "done" /\ NothingToRead(frame) /\ frame # Malformed) => frameOut = Ret(None)
    /\ (pc = "done" /\ frame = Malformed) => Raised(frameOut)

(***************************************************************************)
(* get_product_info                                                        *)
(***************************************************************************)
\* The request sent to api_url for a barcode.
ProductRequest(code) == [url |-> "api_url", barcode |-> code]

\* Mutant: every status except 404 is taken for a success.
StatusOk_AnyBut404(status_code) == status_code # 404

\* response.status_code == 200
StatusOk(status_code) == status_code = 200

\* value == 1: a number compares by value, true equals 1, nothing else does.
PyEqualsOne(v) ==
    CASE v.t = "num" -> v.n = 1
      [] v.t = "bool" -> v.b
      [] OTHER -> FALSE

\* The body of the try statement of get_product_info: the value returned or
\* the exception that reaches the except clause.
FetchBody(resp) ==
    IF resp.kind = "exception" THEN Raise(resp.exc)
    ELSE IF ~StatusOk(resp.status_code) THEN Ret(None)
    ELSE IF ~resp.json.ok THEN Raise("JSONDecodeError")
    ELSE IF resp.json.body.t # "dict" THEN Raise("AttributeError")
    ELSE IF ~PyEqualsOne(PyGet(resp.json.body.d, "status", None)) THEN Ret(None)
    ELSE IF "product" \notin DOMAIN resp.json.body.d THEN Raise("KeyError")
    ELSE Ret(resp.json.body.d["product"])

\* except Exception as e: report the error and return None.
HandleFetch(v, code, body) ==
    IF Raised(body)
      THEN [out |-> Ret(None),
            requests |-> <<ProductRequest(code)>>,
            reported |-> <<[channel |-> ErrorChannel(v),
                            msg |-> "Error fetching product info",
                            exc |-> body.exc]>>]
      ELSE [out |-> body, requests |-> <<ProductRequest(code)>>, reported |-> <<>>]

\* get_product_info(barcode) against a product endpoint that behaves as resp.
get_product_info(v, code, resp) == HandleFetch(v, code, FetchBody(resp))

(***************************************************************************)
(* Inputs of the product-fetch specification.                              *)
(***************************************************************************)
Barcodes == {Str("0123456789012"), Str("96385074")}

\* The product object of a database answer: a record, or null.
ProductObjects == {Dict(SourceProduct), Dict(SourceWithNullCategories), None}

StatusFields == {Num(1), Num(0), Num(2), Bool(TRUE), Str("1"), None}

\* JSON bodies of a database answer: an object with or without the status
\* and product fields, or a value that is not an object.
FetchBodies ==
    {Dict([status |-> st, product |-> pr]) : st \in StatusFields, pr \in ProductObjects}
    \cup {Dict([k \in {"status"} |-> st]) : st \in StatusFields}
    \cup {Dict([k \in {"product"} |-> Dict(SourceProduct)]),
          Dict(EmptyDict), List(<<>>), None}

StatusCodes == {200, 404, 500}

FetchResponses ==
    {[kind |-> "exception", exc |-> e] : e \in {"ConnectionError", "Timeout"}}
    \cup {[kind |-> "response", status_code |-> c, json |-> [ok |-> FALSE]] :
            c \in StatusCodes}
    \cup {[kind |-> "response", status_code |-> c, json |-> [ok |-> TRUE, body |-> b]] :
            c \in StatusCodes, b \in FetchBodies}

InitProduct ==
    /\ variant \in Variants
    /\ pc = "start"
    /\ barcode \in Barcodes
    /\ fetchResponse \in FetchResponses
    /\ fetchOut = Unused
    /\ IdleScore /\ IdleHealthier /\ IdleAlt /\ IdleFrame /\ IdleStores /\ IdleSession

\* A call of get_product_info(barcode).
GetProductInfo ==
    /\ pc = "start"
    /\ barcode # Unused
    /\ \E r \in {get_product_info(variant, barcode, fetchResponse)} :
           /\ fetchOut' = r.out
           /\ http_log' = http_log \o r.requests
           /\ errors' = errors \o r.reported
    /\ pc' = "done"
    /\ UNCHANGED <<sessionVars, variant, barcode, fetchResponse, scoreVars, healthierVars,
                   product_info, health_score, response, altOut, frameVars,
                   storeVars>>

NextProduct == GetProductInfo

SpecProduct == InitProduct /\ [][NextProduct]_vars

(***************************************************************************)
(* Properties of get_product_info (checked under SpecProduct).             *)
(***************************************************************************)
\* The database answered with HTTP status 200 and a JSON object whose status
\* field is 1.
FoundInDatabase ==
    /\ fetchResponse.kind = "response" /\ fetchResponse.status_code = 200
    /\ fetchResponse.json.ok
    /\ fetchResponse.json.body.t = "dict"
    /\ "status" \in DOMAIN fetchResponse.json.body.d
    /\ fetchResponse.json.body.d["status"] \in {Num(1), Bool(TRUE)}

\* C11: get_product_info never raises; it returns the product object of the
\* answer when the HTTP status is 200 and the status field equals 1, and None
\* in every other case: another status field, a status other than 200, a
\* request exception, a body that does not parse, is not an object or lacks
\* the product.
C11_ProductOnlyWhenFound ==
    pc = "done" =>
        /\ Returned(fetchOut)
        /\ fetchOut.val # None =>
             /\ FoundInDatabase
             /\ "product" \in DOMAIN fetchResponse.json.body.d
             /\ fetchOut.val = fetchResponse.json.body.d["product"]
        /\ ~FoundInDatabase => fetchOut = Ret(None)
        /\ (FoundInDatabase /\ "product" \in DOMAIN fetchResponse.json.body.d) =>
             fetchOut = Ret(fetchResponse.json.body.d["product"])

\* C11 witness: a status-200 answer with status 1 but no product field; the
\* KeyError is caught, reported, and None is returned.
C11_Witness ==
    /\ pc = "done" /\ FoundInDatabase
    /\ "product" \notin DOMAIN fetchResponse.json.body.d
    /\ fetchOut = Ret(None)
    /\ Len(errors) = 1 /\ errors[1].exc = "KeyError"

(***************************************************************************)
(* Further properties of find_healthier_alternatives (checked under        *)
(* SpecAlternatives).                                                      *)
(***************************************************************************)
\* C12: whatever happens during alternative discovery (a pool, an HTTP
\* failure, a malformed candidate, malformed source fields such as a null
\* category list), find_healthier_alternatives returns to its caller without
\* raising.
C12_ReturnsWithoutRaising ==
    pc = "done" => Returned(altOut)

\* C12 as the code meets it: the call raises exactly when the category list
\* of the source is not iterable, which happens before the try statement and
\* before any request; everything after the request is absorbed.
C12_RaisesOnlyOnSourceCategories ==
    pc = "done" =>
        /\ Raised(altOut) <=> Raised(main_category(product_info))
        /\ Raised(altOut) => (http_log = <<>> /\ errors = <<>>)

(***************************************************************************)
(* StoreFinder.find_stores and the "Find Stores" button handler of main    *)
(* (Eatelligence.py only).                                                 *)
(***************************************************************************)
\* The try body of find_stores: generate_content may raise; the text between
\* the first "[" and the last "]" is parsed, which raises or gives a list.
StoresBody(answer) ==
    IF answer.kind = "exception" THEN Raise(answer.exc)
    ELSE IF ~answer.json.ok THEN Raise("JSONDecodeError")
    ELSE Ret(List(answer.json.array))

\* find_stores(product_name): the list returned and the errors reported.
\* Every exception is reported with st.error and turned into [].
find_stores(name, answer) ==
    IF Raised(StoresBody(answer))
      THEN [out |-> Ret(List(<<>>)),
            reported |-> <<[channel |-> "st.error",
                            msg |-> "Error generating store recommendations",
                            exc |-> StoresBody(answer).exc]>>]
      ELSE [out |-> StoresBody(answer), reported |-> <<>>]

\* The keys read when a store is displayed, in the order they are read.
store_fields == <<"name", "description", "healthy_alternatives", "special_features">>

\* store[key] for the keys of store_fields from entry i on: the exception of
\* the first failing subscript, or nothing.
RECURSIVE ReadStore(_, _)
ReadStore(store, i) ==
    IF store.t # "dict" THEN Raise("TypeError")
    ELSE IF i > Len(store_fields) THEN Ret(None)
    ELSE IF store_fields[i] \notin DOMAIN store.d THEN Raise("KeyError")
    ELSE ReadStore(store, i + 1)

StoreItem(store) == [kind |-> "store", name |-> store.d["name"]]
InfoMessage == [kind |-> "st.info", msg |-> "No store recommendations available"]
TimeoutMessage == [kind |-> "st.error", msg |-> "The store search is taking too long"]
GenericError(exc) ==
    [kind |-> "st.error", msg |-> "An error occurred while searching for stores",
     exc |-> exc]

\* "for store in stores" from entry i on, `shown` being what the container
\* holds so far: the final content and the exception that ended the loop.  A
\* store whose name can be read has its expander opened before a later field
\* fails.
RECURSIVE DisplayLoop(_, _, _)
DisplayLoop(stores, i, shown) ==
    IF i > Len(stores) THEN [shown |-> shown, exc |-> NoException]
    ELSE IF Raised(ReadStore(stores[i], 1))
      THEN [shown |-> IF stores[i].t = "dict" /\ "name" \in DOMAIN stores[i].d
                        THEN Append(shown, StoreItem(stores[i]))
                        ELSE shown,
            exc |-> ReadStore(stores[i], 1).exc]
    ELSE DisplayLoop(stores, i + 1, Append(shown, StoreItem(stores[i])))

\* Lines 374-384: the container shows the stores, or the info message when
\* the list is empty.
DisplayStores(stores) ==
    IF Truthy(stores) THEN DisplayLoop(stores.l, 1, <<>>)
    ELSE [shown |-> <<InfoMessage>>, exc |-> NoException]

\* Mutant: the inner except clause misses the timeout.
IsTimeoutError_Never(exc) == FALSE

\* except concurrent.futures.TimeoutError
IsTimeoutError(exc) == exc = "TimeoutError"

\* Mutant: the executor is left without waiting for its thread.
WorkerJoined_NoWait(w) == TRUE

\* ThreadPoolExecutor.__exit__ is shutdown(wait=True): it returns once the
\* worker thread has finished.
WorkerJoined(w) == w = "finished"

\* What the inner try statement leaves behind when `exc` is raised in it
\* with `shown` in the container: the timeout is caught and its message
\* replaces the container, anything else propagates.
InnerExcept(exc, shown) ==
    IF IsTimeoutError(exc)
      THEN [placeholder |-> <<TimeoutMessage>>, exc |-> NoException]
      ELSE [placeholder |-> shown, exc |-> exc]

\* The outer "except Exception as e": the generic message replaces the
\* container.
OuterExcept(exc, shown) ==
    IF exc = NoException THEN shown ELSE <<GenericError(exc)>>

(***************************************************************************)
(* Inputs of the store-lookup specification.                               *)
(***************************************************************************)
GoodStore(name) ==
    Dict([name |-> Str(name), description |-> Str("organic section"),
          healthy_alternatives |-> Str("whole-grain snacks"),
          special_features |-> Str("bulk foods")])

StoreValues ==
    { GoodStore("Green Market"), GoodStore("Whole Harvest"),
      Dict([name |-> Str("Corner Shop")]),
      Dict([description |-> Str("no name given")]),
      Str("Trader") }

StoreLists == UNION {[1..n -> StoreValues] : n \in 0..MaxStores}

\* What model.generate_content does: it raises, or it answers with a text
\* whose bracketed part does not parse, or parses to a list.
Answers ==
    {[kind |-> "exception", exc |-> e] : e \in {"GoogleAPIError", "ValueError"}}
    \cup {[kind |-> "text", json |-> [ok |-> FALSE]]}
    \cup {[kind |-> "text", json |-> [ok |-> TRUE, array |-> l]] : l \in StoreLists}

ProductNames == {Str("Choco Bar"), Str("Oat Bar")}

InitStores ==
    /\ variant = "Eatelligence"
    /\ pc = "start"
    /\ product_name \in ProductNames
    /\ gemini \in Answers
    /\ worker = "idle" /\ future = Unused /\ deadline = "unset"
    /\ placeholder = <<>> /\ handlerExc = NoException
    /\ IdleScore /\ IdleHealthier /\ IdleAlt /\ IdleFrame /\ IdleFetch /\ IdleSession

\* "Find Stores" is clicked: the lookup is submitted to the pool and the
\* handler starts waiting on future.result(timeout=10).
ClickFindStores ==
    /\ pc = "start"
    /\ product_name # Unused
    /\ worker' = "running"
    /\ deadline' = "armed"
    /\ pc' = "waiting"
    /\ UNCHANGED <<sessionVars, variant, product_name, gemini, future, placeholder, handlerExc,
                   scoreVars, healthierVars, altVars, frameVars, fetchVars>>

\* The pool thread runs find_stores(product_name) up to its return
\* statement: a failed lookup has been reported with st.error, the future
\* does not hold the result yet.
WorkerRuns ==
    /\ worker = "running"
    /\ \E r \in {find_stores(product_name, gemini)} :
           errors' = errors \o r.reported
    /\ worker' = "returning"
    /\ UNCHANGED <<sessionVars, variant, pc, product_name, gemini, future, deadline,
                   placeholder, handlerExc, scoreVars, healthierVars, product_info,
                   health_score, response, altOut, http_log, frameVars, fetchVars>>

\* find_stores returns and the pool thread sets the result of the future.
WorkerFinishes ==
    /\ worker = "returning"
    /\ \E r \in {find_stores(product_name, gemini)} :
           future' = r.out
    /\ worker' = "finished"
    /\ UNCHANGED <<sessionVars, variant, pc, product_name, gemini, deadline, placeholder,
                   handlerExc, scoreVars, healthierVars, altVars, frameVars, fetchVars>>

\* Ten seconds pass without a result in the future: future.result raises
\* TimeoutError in the handler.
DeadlineExpires ==
    /\ pc = "waiting"
    /\ worker \in {"running", "returning"}
    /\ deadline' = "expired"
    /\ handlerExc' = "TimeoutError"
    /\ pc' = "timed out"
    /\ UNCHANGED <<sessionVars, variant, product_name, gemini, worker, future,
                   placeholder, scoreVars, healthierVars, altVars, frameVars,
                   fetchVars>>

\* The handler reaches the except clauses of the inner try statement with
\* the exception future.result raised; the pool thread may have gone on in
\* the meantime.
HandleTimeout ==
    /\ pc = "timed out"
    /\ \E h \in {InnerExcept(handlerExc, placeholder)} :
           /\ placeholder' = h.placeholder
           /\ handlerExc' = h.exc
    /\ pc' = "exiting"
    /\ UNCHANGED <<sessionVars, variant, product_name, gemini, worker, future,
                   deadline, scoreVars, healthierVars, altVars, frameVars,
                   fetchVars>>

\* The worker finished in time: future.result returns its list and the
\* handler displays it.
ReceiveResult ==
    /\ pc = "waiting"
    /\ worker = "finished"
    /\ deadline' = "met"
    /\ \E d \in {DisplayStores(future.val)} :
          IF d.exc = NoException
            THEN placeholder' = d.shown /\ handlerExc' = NoException
            ELSE \E h \in {InnerExcept(d.exc, d.shown)} :
                    /\ placeholder' = h.placeholder
                    /\ handlerExc' = h.exc
    /\ pc' = "exiting"
    /\ UNCHANGED <<sessionVars, variant, product_name, gemini, worker, future,
                   scoreVars, healthierVars, altVars, frameVars, fetchVars>>

\* The "with ThreadPoolExecutor()" block is left, which waits for the worker;
\* an exception still propagating reaches the outer except clause.
ExitExecutor ==
    /\ pc = "exiting"
    /\ WorkerJoined(worker)
    /\ placeholder' = OuterExcept(handlerExc, placeholder)
    /\ handlerExc' = NoException
    /\ pc' = "done"
    /\ UNCHANGED <<sessionVars, variant, product_name, gemini, worker, future, deadline,
                   scoreVars, healthierVars, altVars, frameVars, fetchVars>>

NextStores ==
    \/ ClickFindStores
    \/ WorkerRuns
    \/ WorkerFinishes
    \/ DeadlineExpires
    \/ HandleTimeout
    \/ ReceiveResult
    \/ ExitExecutor

SpecStores == InitStores /\ [][NextStores]_vars

(***************************************************************************)
(* Properties of the store lookup (checked under SpecStores).              *)
(***************************************************************************)
ShowsTimeout == \E k \in 1..Len(placeholder) : placeholder[k] = TimeoutMessage
ShowsGenericError ==
    \E k \in 1..Len(placeholder) :
        placeholder[k].kind = "st.error" /\ placeholder[k] # TimeoutMessage
ShowsStoreResult ==
    \E k \in 1..Len(placeholder) : placeholder[k].kind \in {"store", "st.info"}

\* The lookup itself failed: generate_content raised or its answer did not
\* parse, which find_stores reports and turns into [].
LookupFailed == gemini.kind = "exception" \/ ~gemini.json.ok

\* C13: once the deadline has expired before the lookup finished, the
\* timeout message is shown as soon as the handler has caught the
\* TimeoutError, and neither the generic-error message nor a store result
\* is ever shown; when the deadline did not expire (the lookup finished in
\* time, failed or not, or displaying its result failed) the timeout
\* message is never shown, and the finished handler shows either the
\* generic error or the result.
C13_TimeoutDistinct ==
    /\ deadline = "expired" => (~ShowsGenericError /\ ~ShowsStoreResult)
    /\ deadline = "expired" => (ShowsTimeout \/ (pc = "timed out" /\ placeholder = <<>>))
    /\ deadline # "expired" => ~ShowsTimeout
    /\ (pc = "done" /\ deadline = "met") => (ShowsGenericError \/ ShowsStoreResult)
    /\ (pc = "done" /\ deadline = "met") => ~(ShowsGenericError /\ ShowsStoreResult)

\* C13 witness: the handler is done after the deadline expired on a lookup
\* that then failed; only the timeout message is in the placeholder.
C13_Witness ==
    /\ pc = "done" /\ deadline = "expired"
    /\ LookupFailed /\ errors # <<>>
    /\ placeholder = <<TimeoutMessage>>

\* C20: the handler is never done while the worker is still running, and
\* after an expired deadline nothing the worker produced is displayed:
\* the placeholder is empty until the timeout is caught and holds the
\* timeout message alone from then on, also once the worker has delivered
\* its result.
C20_HandlerWaitsForWorker ==
    /\ pc = "done" => worker = "finished"
    /\ deadline = "expired" =>
          placeholder = IF pc = "timed out" THEN <<>> ELSE <<TimeoutMessage>>

\* C20 witness: the deadline expired, the worker later produced a list of
\* displayable stores, the handler is done and shows the timeout only.
C20_Witness ==
    /\ pc = "done" /\ deadline = "expired"
    /\ worker = "finished" /\ Returned(future)
    /\ future.val.l # <<>>
    /\ \A k \in 1..Len(future.val.l) : Returned(ReadStore(future.val.l[k], 1))
    /\ placeholder = <<TimeoutMessage>>

\* The handler blocked in the executor's exit: the timeout is shown and the
\* worker has not finished.
C20_BlockedOnExit ==
    pc = "exiting" /\ deadline = "expired" /\ worker = "running"

\* The worker delivered its list after future.result raised and before the
\* handler showed the timeout message.
C20_ResultBeforeMessage ==
    /\ pc = "timed out" /\ worker = "finished" /\ Returned(future)
    /\ future.val.l # <<>> /\ placeholder = <<>>

\* The failed lookup was reported by the pool thread before the deadline
\* expired on it: the report and the timeout message exist while the future
\* holds no result.
C13_ReportBeforeTimeout ==
    /\ worker = "returning" /\ future = Unused /\ errors # <<>>
    /\ placeholder = <<TimeoutMessage>>

(***************************************************************************)
(* One scan in main: the product is fetched, scored, and alternatives are  *)
(* searched when the score is below 70.                                    *)
(***************************************************************************)
\* The nutrients of nutrition_facts_order shown in mg, for which the value
\* is converted with float(value) * 1000.
mg_nutrients ==
    <<"cholesterol_100g", "sodium_100g", "calcium_100g", "iron_100g", "potassium_100g">>

\* The display loop over the mg nutrients from entry i on, as written in
\* barcode_scanner_app.py and barcode_scanner_app_streamlit.py: a present
\* value that float() rejects raises.
RECURSIVE MgLoop(_, _)
MgLoop(nutrients, i) ==
    IF i > Len(mg_nutrients) THEN Ret(None)
    ELSE IF mg_nutrients[i] \in DOMAIN nutrients
            /\ Raised(PyFloat(nutrients[mg_nutrients[i]]))
      THEN PyFloat(nutrients[mg_nutrients[i]])
    ELSE MgLoop(nutrients, i + 1)

\* Eatelligence.py skips null values and catches the conversion errors.
DisplayGuarded(v) == v = "Eatelligence"

\* display_nutrition_facts(product_info), called by the command-line main only.
display_nutrition_facts(v, info) ==
    IF v # "barcode_scanner_app" THEN Ret(None)
    ELSE IF PyGet(info, "nutriments", Dict(EmptyDict)).t # "dict" THEN Raise("TypeError")
    ELSE MgLoop(PyGet(info, "nutriments", Dict(EmptyDict)).d, 1)

\* The loop of main that shows the alternatives from entry i on.
RECURSIVE ShowAlternatives(_, _, _)
ShowAlternatives(v, alternatives, i) ==
    IF i > Len(alternatives) THEN Ret(None)
    ELSE IF DisplayGuarded(v) THEN ShowAlternatives(v, alternatives, i + 1)
    ELSE IF alternatives[i].nutriments.t # "dict" THEN Raise("TypeError")
    ELSE IF Raised(MgLoop(alternatives[i].nutriments.d, 1))
      THEN MgLoop(alternatives[i].nutriments.d, 1)
    ELSE ShowAlternatives(v, alternatives, i + 1)

\* A message main itself shows to the user.
MainMessage(channel, msg) == [channel |-> channel, msg |-> msg, exc |-> NoException]

\* main after get_product_info returned: "Product not found in database"
\* when the result is falsy.
NotFoundReport(v, fetched) ==
    IF Truthy(fetched) THEN <<>>
    ELSE <<MainMessage(ErrorChannel(v), "Product not found in database")>>

\* main after find_healthier_alternatives returned a falsy value: the
\* command-line and the plain streamlit variant say so, Eatelligence.py shows
\* nothing.
NoAlternativesReport(v) ==
    CASE v = "barcode_scanner_app" ->
           <<MainMessage("print", "No healthier alternatives found in our database")>>
      [] v = "barcode_scanner_app_streamlit" ->
           <<MainMessage("st.info", "No healthier alternatives found in our database")>>
      [] OTHER -> <<>>

\* health_score < 70
NeedsAlternatives(score) == score < 70

(***************************************************************************)
(* Inputs of the scan specification.                                       *)
(***************************************************************************)
\* A product scoring 82: no search is made for it.
HealthyProduct ==
    [code |-> Str("300"), product_name |-> Str("Lentils"),
     categories_tags |-> List(<<Str("en:legumes")>>),
     nutriments |-> Nutr(0, 0, 4, 4)]

\* Null values: sugars is scored, cholesterol is only displayed.
ProductWithNullSugars ==
    [code |-> Str("301"), product_name |-> Str("Mystery Bar"),
     categories_tags |-> List(<<Str("en:snacks")>>),
     nutriments |-> Dict(("sugars_100g" :> None) @@ Nutr(4, 4, 2, 2).d)]

ProductWithNullCholesterol ==
    [code |-> Str("302"), product_name |-> Str("Plain Bar"),
     categories_tags |-> List(<<Str("en:snacks")>>),
     nutriments |-> Dict(Nutr(4, 4, 2, 2).d @@ ("cholesterol_100g" :> None))]

ScanProducts ==
    {SourceProduct, SourceWithNullCategories, HealthyProduct,
     ProductWithNullSugars, ProductWithNullCholesterol}

ScanFetchResponses ==
    {[kind |-> "exception", exc |-> "ConnectionError"],
     [kind |-> "response", status_code |-> 404, json |-> [ok |-> FALSE]],
     [kind |-> "response", status_code |-> 500,
      json |-> [ok |-> TRUE,
                body |-> Dict([status |-> Num(1), product |-> Dict(SourceProduct)])]],
     [kind |-> "response", status_code |-> 200, json |-> [ok |-> FALSE]],
     [kind |-> "response", status_code |-> 200,
      json |-> [ok |-> TRUE, body |-> Dict([status |-> Num(0)])]],
     [kind |-> "response", status_code |-> 200,
      json |-> [ok |-> TRUE,
                body |-> Dict([status |-> Num(1), product |-> Dict(EmptyDict)])]]}
    \cup {[kind |-> "response", status_code |-> 200,
           json |-> [ok |-> TRUE,
                     body |-> Dict([status |-> Num(1), product |-> Dict(p)])]] :
            p \in ScanProducts}

\* An accepted candidate whose cholesterol is null.
CandidateWithNullCholesterol ==
    Candidate("211", "Seed Bar",
              Dict(Nutr(1, 1, 5, 5).d @@ ("cholesterol_100g" :> None)), InMarket)

ScanPools ==
    UNION {[1..n -> {Candidate("201", "Oat Bar", Nutr(1, 1, 5, 5), InMarket),
                     Candidate("204", "Bran Flakes", Nutr(1, 2, 4, 3), InMarket),
                     Candidate("203", "Rice Cake", Nutr(3, 3, 3, 3), InMarket),
                     CandidateWithNullCholesterol}] : n \in 0..MaxScanPool}

ScanSearchResponses ==
    FailedResponses \cup {OkResponse([products |-> List(pool)]) : pool \in ScanPools}

(***************************************************************************)
(* The camera and the session state of main.                               *)
(***************************************************************************)
\* "if 'barcode_detected' not in st.session_state: ..." on the first run.
initial_session_state == [barcode_detected |-> FALSE, product_info |-> None]

\* What st.camera_input returns: None, or a photo described by the array
\* cv2.imdecode(..., cv2.IMREAD_COLOR) makes of it: a colour image, or None
\* when the bytes are not an image.
Photo(image) == [t |-> "photo", image |-> image]
imdecode(cam) == cam.image

\* What the capture loop of scan_barcode meets: frames, each followed by the
\* key cv2.waitKey reports, until cap.read() fails or the 30 seconds are over.
Shot(symbols, key) == [image |-> Image([raw |-> symbols]), key |-> key]
Feed(shots, ending) == [t |-> "feed", shots |-> shots, ending |-> ending]

\* The capture loop from shot i on.
RECURSIVE CaptureLoop(_, _, _)
CaptureLoop(feed, i, decodes) ==
    IF i > Len(feed.shots)
      THEN [out |-> Ret(None), decodes |-> decodes,
            messages |-> <<[channel |-> "print",
                            msg |-> IF feed.ending = "timeout"
                                      THEN "Timeout: No barcode scanned within 30 seconds"
                                      ELSE "Failed to grab frame",
                            exc |-> NoException]>>]
    ELSE IF feed.shots[i].image.symbols["raw"] # <<>>
      THEN [out |-> Utf8Decode(feed.shots[i].image.symbols["raw"][1]),
            decodes |-> Append(decodes, "raw"), messages |-> <<>>]
    ELSE IF feed.shots[i].key = "q"
      THEN [out |-> Ret(None), decodes |-> Append(decodes, "raw"), messages |-> <<>>]
    ELSE CaptureLoop(feed, i + 1, Append(decodes, "raw"))

\* barcode_scanner_app.py: scan_barcode()
scan_barcode(feed) == CaptureLoop(feed, 1, <<>>)

\* session_state.barcode_detected = False; session_state.product_info = None
ResetSession(s) == [s EXCEPT !.barcode_detected = FALSE, !.product_info = None]

\* Eatelligence.py: "if camera_input is None and
\* st.session_state.get('barcode_detected', False)".
PhotoCleared(v, s, cam) == v = "Eatelligence" /\ cam = None /\ s.barcode_detected

\* barcode_scanner_app_streamlit.py: "if st.session_state.barcode_detected:
\* if st.button('Scan Another Product')".
ResetClicked(v, s, clicked_now) ==
    v = "barcode_scanner_app_streamlit" /\ s.barcode_detected /\ clicked_now

\* The variants that keep a session.
KeepsSession(v) == v # "barcode_scanner_app"

\* Mutant: the result of the lookup is stored whatever it is.
CachesProduct_Always(fetched) == TRUE

\* "if product_info: st.session_state.product_info = product_info"
CachesProduct(fetched) == Truthy(fetched)

\* st.session_state.barcode_detected = True
Detected(v, s) == IF KeepsSession(v) THEN [s EXCEPT !.barcode_detected = TRUE] ELSE s

\* The session state after the lookup returned `fetched`.
Cached(v, s, fetched) ==
    IF KeepsSession(v) /\ CachesProduct(fetched)
      THEN [s EXCEPT !.product_info = fetched]
      ELSE s

\* The product main goes on with: the session's product in the streamlit
\* files, the fetched one on the command line.
ProductToShow(v, s, fetched) == IF KeepsSession(v) THEN s.product_info ELSE fetched

\* main up to "if barcode:": the capture loop on the command line,
\* process_frame on the decoded photo in the streamlit files.
ReadBarcode(v, cam) ==
    IF ~KeepsSession(v)
      THEN [frame |-> Unused] @@ scan_barcode(cam)
    ELSE IF cam = None
      THEN [frame |-> Unused, out |-> Unused, decodes |-> <<>>, messages |-> <<>>]
    ELSE [frame |-> imdecode(cam), messages |-> <<>>] @@ process_frame(v, imdecode(cam))

\* The else branch of "if barcode:".
NoBarcodeReport(v, cam) ==
    IF ~KeepsSession(v)
      THEN <<MainMessage("print", "No barcode detected or scan timeout")>>
    ELSE IF cam = None THEN <<>>
    ELSE <<MainMessage("st.warning", "No barcode detected. Please try again.")>>

\* The last lines of main: barcode_scanner_app_streamlit.py resets the
\* session when its button was clicked and starts over.
EndOfMain(v, s, clicked_now) ==
    IF ResetClicked(v, s, clicked_now)
      THEN [session |-> ResetSession(s), pc |-> "rerun", info |-> Unused]
      ELSE [session |-> s, pc |-> "done", info |-> Unused]

\* main after the camera part: "if product_info:" /
\* "if st.session_state.product_info:" leads to the scoring of that product.
InfoColumn(v, s, shown, clicked_now) ==
    IF Truthy(shown)
      THEN [session |-> s, pc |-> "fetched", info |-> shown.d]
      ELSE EndOfMain(v, s, clicked_now)

\* Whether the reset button is on the page once main is at `place`: a run
\* that reaches its last lines shows it when barcode_detected is set, a run
\* that raises shows the exception instead, a running script leaves the
\* page as it is.
ButtonAfter(v, s, place, before) ==
    CASE place = "done" -> v = "barcode_scanner_app_streamlit" /\ s.barcode_detected
      [] place = "rerun" -> v = "barcode_scanner_app_streamlit"
      [] place = "crashed" -> FALSE
      [] OTHER -> before

\* main moves to `place` with session state s.
Leave(s, place) ==
    /\ session_state' = s
    /\ pc' = place
    /\ reset_button' = ButtonAfter(variant, s, place, reset_button)

(***************************************************************************)
(* Inputs of the camera.                                                   *)
(***************************************************************************)
\* An image in which the given symbols are detected: in the equalized
\* rendering for Eatelligence.py, in the frame itself for the other file.
SessionImage(v, symbols) ==
    IF v = "Eatelligence"
      THEN Image([gray |-> <<>>, equalized |-> symbols, blurred |-> <<>>,
                  threshold |-> <<>>])
      ELSE Image([raw |-> symbols])

\* What a frame shows: no barcode, one of two barcodes, a payload that is
\* not UTF-8, an empty payload.
Sightings ==
    {<<>>, <<Bytes("0123456789012", TRUE)>>, <<Bytes("96385074", TRUE)>>,
     <<Bytes("", FALSE)>>, <<Bytes("", TRUE)>>}

\* Photos: bytes that are not an image, or an image with a sighting.
Photos(v) == {Photo(None)} \cup {Photo(SessionImage(v, symbols)) : symbols \in Sightings}

Shots == {Shot(symbols, key) : symbols \in Sightings, key \in {"", "q"}}

Feeds ==
    {Feed(shots, ending) :
        shots \in UNION {[1..n -> Shots] : n \in 0..MaxShots},
        ending \in {"timeout", "no frame"}}

CameraInputs(v) == IF KeepsSession(v) THEN {None} \cup Photos(v) ELSE Feeds

InitScan ==
    /\ variant \in Variants
    /\ pc = "start"
    /\ camera_input \in CameraInputs(variant)
    /\ session_state = IF KeepsSession(variant) THEN initial_session_state ELSE Unused
    /\ clicked = FALSE /\ reset_button = FALSE
    /\ IdleScore /\ IdleHealthier /\ IdleAlt /\ IdleFrame /\ IdleFetch /\ IdleStores

\* main up to the product lookup: the reset of Eatelligence.py when the
\* photo was cleared, the barcode read from the camera, and the branch
\* "if barcode:", which sets barcode_detected before the lookup starts.
ScanBarcode ==
    /\ pc = "start"
    /\ camera_input # Unused
    /\ IF KeepsSession(variant) /\ PhotoCleared(variant, session_state, camera_input)
         THEN /\ Leave(ResetSession(session_state), "rerun")
              /\ UNCHANGED <<frameVars, barcode, errors, handlerExc, product_info>>
         ELSE \E r \in {ReadBarcode(variant, camera_input)} :
                /\ frame' = r.frame /\ decodeLog' = r.decodes /\ frameOut' = r.out
                /\ IF r.out # Unused /\ Raised(r.out)
                     THEN /\ Leave(session_state, "crashed")
                          /\ handlerExc' = r.out.exc
                          /\ errors' = errors \o r.messages
                          /\ UNCHANGED <<barcode, product_info>>
                   ELSE IF r.out # Unused /\ Truthy(r.out.val)
                     THEN /\ Leave(Detected(variant, session_state), "scanned")
                          /\ barcode' = r.out.val
                          /\ errors' = errors \o r.messages
                          /\ UNCHANGED <<handlerExc, product_info>>
                   ELSE \E next \in {InfoColumn(variant, session_state, ProductToShow(variant, session_state, None), clicked)} :
                          /\ Leave(next.session, next.pc)
                          /\ product_info' = next.info
                          /\ errors' = errors \o r.messages
                                         \o NoBarcodeReport(variant, camera_input)
                          /\ UNCHANGED <<barcode, handlerExc>>
    /\ UNCHANGED <<variant, camera_input, clicked, fetchResponse, fetchOut,
                   health_score, response, altOut, http_log, scoreVars,
                   healthierVars, product_name, gemini, worker, future,
                   deadline, placeholder>>

\* main: product_info = get_product_info(barcode), the cache, and the
\* branch on the product to show.
FetchProduct ==
    /\ pc = "scanned"
    /\ \E fetched \in ScanFetchResponses :
         \E r \in {get_product_info(variant, barcode, fetched)} :
           /\ fetchResponse' = fetched
           /\ fetchOut' = r.out
           /\ http_log' = http_log \o r.requests
           /\ errors' = errors \o r.reported \o NotFoundReport(variant, r.out.val)
           /\ \E s \in {Cached(variant, session_state, r.out.val)} :
                \E next \in {InfoColumn(variant, s, ProductToShow(variant, s, r.out.val), clicked)} :
                   /\ Leave(next.session, next.pc)
                   /\ product_info' = next.info
    /\ UNCHANGED <<variant, camera_input, clicked, barcode, response,
                   health_score, altOut, handlerExc, scoreVars, healthierVars,
                   frameVars, product_name, gemini, worker, future, deadline,
                   placeholder>>

\* main: health_score = calculate_health_score(product_info), the display of
\* the product, and the test health_score < 70.
ScoreProduct ==
    /\ pc = "fetched"
    /\ \E sc \in {calculate_health_score(variant, product_info)} :
          IF Raised(sc)
            THEN /\ handlerExc' = sc.exc
                 /\ Leave(session_state, "crashed")
                 /\ health_score' = health_score
            ELSE /\ health_score' = sc.val
                 /\ \E shown \in {display_nutrition_facts(variant, product_info)} :
                       IF Raised(shown)
                         THEN handlerExc' = shown.exc /\ Leave(session_state, "crashed")
                       ELSE IF NeedsAlternatives(sc.val)
                         THEN handlerExc' = handlerExc /\ Leave(session_state, "scored")
                       ELSE \E next \in {EndOfMain(variant, session_state, clicked)} :
                              handlerExc' = handlerExc /\ Leave(next.session, next.pc)
    /\ UNCHANGED <<variant, camera_input, clicked, fetchVars, product_info,
                   response, altOut, http_log, errors, scoreVars, healthierVars,
                   frameVars, product_name, gemini, worker, future, deadline,
                   placeholder>>

\* main: alternatives = find_healthier_alternatives(product_info,
\* health_score) and what is shown for them.
SearchAlternatives ==
    /\ pc = "scored"
    /\ \E searched \in ScanSearchResponses :
         \E r \in {find_healthier_alternatives(variant, product_info, health_score, searched)} :
           /\ response' = searched
           /\ altOut' = r.out
           /\ http_log' = http_log \o r.requests
           /\ \E next \in {EndOfMain(variant, session_state, clicked)} :
                IF Raised(r.out)
                  THEN /\ errors' = errors \o r.reported
                       /\ handlerExc' = r.out.exc /\ Leave(session_state, "crashed")
                ELSE IF ~Truthy(r.out.val)
                  THEN /\ errors' = errors \o r.reported \o NoAlternativesReport(variant)
                       /\ handlerExc' = handlerExc /\ Leave(next.session, next.pc)
                ELSE /\ errors' = errors \o r.reported
                     /\ \E shown \in {ShowAlternatives(variant, r.out.val.l, 1)} :
                           IF Raised(shown)
                             THEN handlerExc' = shown.exc /\ Leave(session_state, "crashed")
                             ELSE handlerExc' = handlerExc /\ Leave(next.session, next.pc)
    /\ UNCHANGED <<variant, camera_input, clicked, fetchVars, product_info,
                   health_score, scoreVars, healthierVars, frameVars,
                   product_name, gemini, worker, future, deadline, placeholder>>

NextScan ==
    \/ ScanBarcode
    \/ FetchProduct
    \/ ScoreProduct
    \/ SearchAlternatives

SpecScan == InitScan /\ [][NextScan]_vars

(***************************************************************************)
(* Properties of a scan (checked under SpecScan).                          *)
(***************************************************************************)
FetchRequests == Cardinality({k \in 1..Len(http_log) : http_log[k].url = "api_url"})
SearchRequests == Cardinality({k \in 1..Len(http_log) : http_log[k].url = "search_url"})

\* What the user is shown about the product fetch and about the search.
FetchReports ==
    Cardinality({k \in 1..Len(errors) :
        errors[k].msg \in {"Error fetching product info", "Product not found in database"}})
SearchReports ==
    Cardinality({k \in 1..Len(errors) :
        errors[k].msg \in {"Error finding alternatives",
                           "No healthier alternatives found in our database"}})

\* The HTTP call failed: the request raised or the status is not 200.
CallFailed(resp) ==
    resp.kind = "exception" \/ (resp.kind = "response" /\ resp.status_code # 200)

FetchOver == fetchOut # Unused
SearchOver == pc \in {"done", "crashed"} /\ SearchRequests > 0

\* C14: a product fetch and an alternative search issue at most one request
\* each, and a failed call (exception or status other than 200) is shown to
\* the user exactly once while the operation yields None or an empty list.
C14_FailedCallReportedOnce ==
    /\ FetchRequests <= 1 /\ SearchRequests <= 1
    /\ (FetchOver /\ CallFailed(fetchResponse)) =>
          (FetchReports = 1 /\ fetchOut = Ret(None))
    /\ (SearchOver /\ CallFailed(response)) =>
          (SearchReports = 1 /\ altOut \in {Ret(None), Ret(List(<<>>))})

\* C14 as the code meets it: no call is repeated and a failed call yields
\* None or []; the number of messages for it ranges from none (search
\* answered with a status other than 200 in Eatelligence.py) to two.
C14_NoRetryAndEmptyResult ==
    /\ FetchRequests <= 1 /\ SearchRequests <= 1
    /\ (FetchOver /\ CallFailed(fetchResponse)) =>
          (FetchReports \in {1, 2} /\ fetchOut = Ret(None))
    /\ (SearchOver /\ CallFailed(response)) =>
          (SearchReports \in {0, 1, 2} /\ altOut \in {Ret(None), Ret(List(<<>>))})

\* A failed search of which the user is told nothing.
C14_SilentSearchFailure ==
    SearchOver /\ CallFailed(response) /\ SearchReports = 0 /\ pc = "done"

(***************************************************************************)
(* Inputs of the candidate-filter specification: the same call of          *)
(* find_healthier_alternatives on pools that exercise the self-exclusion   *)
(* and the country filter.                                                 *)
(***************************************************************************)
SourceWithoutCode ==
    [product_name |-> Str("Choco Bar"),
     categories_tags |-> List(<<Str(""), Str("en:snacks")>>),
     nutriments |-> Nutr(4, 4, 2, 2), countries_tags |-> InMarket]

FilterSources == {SourceProduct, SourceWithoutCode}

\* Every candidate but the source scores above 34 and wins the nutrient
\* comparison; they differ in code and country tags.
FilterCatalog ==
    { Candidate("201", "Oat Bar", Nutr(1, 1, 5, 5), InMarket),
      Candidate("220", "Dual", Nutr(1, 2, 4, 3),
                List(<<Str("en:france"), Str("en:united-states")>>)),
      Candidate("210", "Import", Nutr(1, 1, 5, 5), List(<<Str("en:france")>>)),
      [code |-> Str("221"), product_name |-> Str("No Tags"),
       nutriments |-> Nutr(1, 1, 5, 5)],
      Candidate("222", "Empty Tags", Nutr(1, 1, 5, 5), List(<<>>)),
      Candidate("223", "Similar", Nutr(0, 0, 5, 5),
                List(<<Str("en:united-states-minor-outlying-islands"),
                       Str("united-states"), Str("en:United-States")>>)),
      Candidate("224", "Null Tags", Nutr(1, 1, 5, 5), None),
      Candidate("225", "Foreign Null",
                Dict(("sugars_100g" :> None) @@ Nutr(1, 1, 5, 5).d),
                List(<<Str("en:france")>>)),
      [product_name |-> Str("Loose Oats"), nutriments |-> Nutr(2, 2, 4, 4),
       countries_tags |-> InMarket],
      SourceProduct }

FilterPools ==
    {pool \in UNION {[1..n -> FilterCatalog] : n \in 0..MaxFilterPool} :
        \A i, j \in 1..Len(pool) : pool[i] = pool[j] => i = j}

InitFilters ==
    /\ variant \in Variants
    /\ pc = "start"
    /\ product_info \in FilterSources
    /\ \E pool \in FilterPools : response = OkResponse([products |-> List(pool)])
    /\ health_score = calculate_health_score(variant, product_info).val
    /\ altOut = Unused /\ http_log = <<>> /\ errors = <<>>
    /\ IdleScore /\ IdleHealthier /\ IdleFrame /\ IdleFetch /\ IdleStores /\ IdleSession

SpecFilters == InitFilters /\ [][NextAlternatives]_vars

(***************************************************************************)
(* Properties of the candidate filters (checked under SpecFilters).        *)
(***************************************************************************)
\* The candidate's country tags are a list with the tag en:united-states
\* itself among them.
HasTargetTag(c) ==
    /\ "countries_tags" \in DOMAIN c
    /\ c["countries_tags"].t = "list"
    /\ \E t \in 1..Len(c["countries_tags"].l) :
         c["countries_tags"].l[t] = Str("en:united-states")

ReturnedNames == {Alternatives[k].name : k \in 1..Len(Alternatives)}

\* C15: every alternative returned comes from a candidate of the pool whose
\* country tags contain en:united-states by exact match; a candidate whose
\* tags are missing, null, empty, foreign or merely similar is never
\* returned, whatever its score.
C15_OnlyTargetMarket ==
    (ReturnedList /\ PoolReceived) =>
        /\ \A k \in 1..Len(Alternatives) :
             \E i \in 1..Len(Pool) :
                /\ CandidateName(Pool[i]) = Alternatives[k].name
                /\ CandidateNutriments(Pool[i]) = Alternatives[k].nutriments
                /\ HasTargetTag(Pool[i])
        /\ \A i \in 1..Len(Pool) :
             ~HasTargetTag(Pool[i]) => CandidateName(Pool[i]) \notin ReturnedNames

\* C15 witness: the pool holds a foreign candidate and one with merely
\* similar tags, both scoring above the source and above the candidate that
\* carries the target tag next to another one; only the latter is returned.
C15_Witness ==
    /\ ReturnedList /\ PoolReceived
    /\ Len(Pool) = 3
    /\ \E i, j, k \in 1..Len(Pool) :
         /\ CandidateName(Pool[i]) = Str("Import")
         /\ CandidateName(Pool[j]) = Str("Similar")
         /\ CandidateName(Pool[k]) = Str("Dual")
         /\ CandidateScore(Pool[i]).val > CandidateScore(Pool[k]).val
         /\ CandidateScore(Pool[j]).val > CandidateScore(Pool[k]).val
         /\ CandidateScore(Pool[k]).val > health_score
    /\ ReturnedNames = {Str("Dual")}

(***************************************************************************)
(* The shape of the result (checked under SpecAlternatives).               *)
(***************************************************************************)
\* What the loop decides for each candidate of the pool, by position.
CandidateTable ==
    [i \in 1..Len(Pool) |->
        [accepted |-> Accepted(Pool[i]),
         name |-> CandidateName(Pool[i]),
         score |-> CandidateScore(Pool[i]),
         nutriments |-> CandidateNutriments(Pool[i])]]

AcceptedIn(t) == {i \in DOMAIN t : t[i].accepted}
AcceptedCandidates == AcceptedIn(CandidateTable)
AcceptedNames == {CandidateName(Pool[i]) : i \in AcceptedCandidates}

\* The result against the table t of its pool.
BestOfEachNameTopThree(t) ==
    /\ Len(Alternatives) =
         PyMin(3, Cardinality({t[i].name : i \in AcceptedIn(t)}))
    /\ \A k \in 1..Len(Alternatives) :
         /\ \E i \in AcceptedIn(t) :
              /\ t[i].name = Alternatives[k].name
              /\ t[i].score.val = Alternatives[k].health_score
              /\ t[i].nutriments = Alternatives[k].nutriments
         /\ \A j \in AcceptedIn(t) :
              t[j].name = Alternatives[k].name =>
                  t[j].score.val <= Alternatives[k].health_score
    /\ \A i \in AcceptedIn(t) :
         t[i].name \notin {Alternatives[k].name : k \in 1..Len(Alternatives)} =>
             \A k \in 1..Len(Alternatives) :
                 t[i].score.val <= Alternatives[k].health_score

\* C16: when the search ran to its end, the result holds
\* min(3, number of distinct names among the accepted candidates) entries;
\* each entry is an accepted candidate that no accepted candidate of the
\* same name outscores; and no accepted candidate whose name is missing from
\* the result scores strictly higher than an entry of the result.
C16_BestOfEachNameTopThree ==
    (ReturnedList /\ PoolReceived /\ errors = <<>>) =>
        \A t \in {CandidateTable} : BestOfEachNameTopThree(t)

\* C16 witness: two accepted candidates share a name and the pool lists the
\* lower-scored one first, ahead of two other names; the result has three
\* entries and the shared name appears with the higher score.
C16_Witness ==
    /\ ReturnedList /\ PoolReceived /\ errors = <<>>
    /\ Cardinality(AcceptedCandidates) = 4
    /\ Cardinality(AcceptedNames) = 3
    /\ Len(Alternatives) = 3
    /\ \E i, j \in AcceptedCandidates :
         /\ i < j
         /\ CandidateName(Pool[i]) = CandidateName(Pool[j])
         /\ CandidateScore(Pool[i]).val < CandidateScore(Pool[j]).val
         /\ Alternatives[1].name = CandidateName(Pool[j])
         /\ Alternatives[1].health_score = CandidateScore(Pool[j]).val

(***************************************************************************)
(* The self-exclusion step (checked under SpecFilters).                    *)
(***************************************************************************)
\* The candidate is the source product: both carry a code and the codes are
\* equal.
IsSource(c) ==
    /\ "code" \in DOMAIN c /\ "code" \in DOMAIN product_info
    /\ c["code"] = product_info["code"]

\* The candidate passes the tests that follow the self-exclusion.
PassesLaterTests(c) ==
    /\ HasTargetTag(c)
    /\ Returned(CandidateScore(c)) /\ CandidateScore(c).val > health_score
    /\ is_healthier_option(SourceNutriments, CandidateNutriments(c)) = Ret(Bool(TRUE))

\* C17: the self-exclusion removes exactly the source: the source is never
\* among the alternatives, and a candidate that is a different product and
\* passes the later tests is not lost (its name is in the result unless the
\* result is full), also when the source or the candidate has no code field.
C17_OnlySourceExcluded ==
    (ReturnedList /\ PoolReceived /\ errors = <<>>) =>
        /\ \A i \in 1..Len(Pool) :
             IsSource(Pool[i]) =>
                 \A k \in 1..Len(Alternatives) :
                     ~(/\ Alternatives[k].name = CandidateName(Pool[i])
                       /\ Alternatives[k].nutriments = CandidateNutriments(Pool[i]))
        /\ \A i \in 1..Len(Pool) :
             (~IsSource(Pool[i]) /\ PassesLaterTests(Pool[i])) =>
                 (CandidateName(Pool[i]) \in ReturnedNames \/ Len(Alternatives) = 3)

\* C17 as the code meets it: a candidate is skipped exactly when
\* product.get('code') equals product_info.get('code'), which is also the
\* case when neither record has a code.
C17_SkipsEqualOrMissingCodes ==
    (ReturnedList /\ PoolReceived /\ errors = <<>>) =>
        \A i \in 1..Len(Pool) :
            PassesLaterTests(Pool[i]) =>
                ( (CandidateName(Pool[i]) \in ReturnedNames \/ Len(Alternatives) = 3)
                  <=> PyGet(Pool[i], "code", None) # PyGet(product_info, "code", None) )

\* A candidate without a code dropped for a source without a code.
C17_DifferentProductDropped ==
    /\ ReturnedList /\ PoolReceived /\ errors = <<>>
    /\ "code" \notin DOMAIN product_info
    /\ \E i \in 1..Len(Pool) :
         /\ "code" \notin DOMAIN Pool[i]
         /\ CandidateName(Pool[i]) # CandidateName(product_info)
         /\ PassesLaterTests(Pool[i])
         /\ CandidateName(Pool[i]) \notin ReturnedNames
    /\ Len(Alternatives) < 3

(***************************************************************************)
(* Non-interference of out-of-market candidates (checked under             *)
(* SpecFilters).                                                           *)
(***************************************************************************)
\* The pool without the candidates that lack the target-country tag.
RECURSIVE InMarketOnly(_, _)
InMarketOnly(pool, i) ==
    IF i > Len(pool) THEN <<>>
    ELSE IF HasTargetTag(pool[i]) THEN <<pool[i]>> \o InMarketOnly(pool, i + 1)
    ELSE InMarketOnly(pool, i + 1)

\* The list the same call returns on the pool reduced to its in-market
\* candidates.
OutcomeOnInMarketPool ==
    find_healthier_alternatives(variant, product_info, health_score,
        OkResponse([products |-> List(InMarketOnly(Pool, 1))])).out

\* C18: removing from the pool every candidate that lacks the
\* target-country tag leaves the returned list unchanged, also when such a
\* candidate carries a null nutrient value.
C18_OutOfMarketHasNoInfluence ==
    (pc = "done" /\ PoolReceived) => altOut = OutcomeOnInMarketPool

\* C18 as the code meets it: an out-of-market candidate changes the result
\* only by raising, which empties it: when its score cannot be computed
\* (barcode_scanner_app.py and barcode_scanner_app_streamlit.py convert the
\* value without a guard) or when its tag list is null.
C18_InfluenceOnlyByException ==
    (pc = "done" /\ PoolReceived) =>
        \/ altOut = OutcomeOnInMarketPool
        \/ /\ errors # <<>>
           /\ altOut = Ret(List(<<>>))
           /\ \E i \in 1..Len(Pool) :
                /\ ~HasTargetTag(Pool[i])
                /\ \/ Raised(CandidateScore(Pool[i]))
                   \/ PyGet(Pool[i], "countries_tags", List(<<>>)).t # "list"

\* A foreign candidate with a null nutrient value empties a result that
\* holds an alternative without it.
C18_ForeignNullEmptiesResult ==
    /\ pc = "done" /\ PoolReceived
    /\ altOut = Ret(List(<<>>))
    /\ OutcomeOnInMarketPool # Ret(List(<<>>))
    /\ \A i \in 1..Len(Pool) : PyGet(Pool[i], "countries_tags", List(<<>>)).t = "list"

(***************************************************************************)
(* Null values in is_healthier_option (checked under SpecHealthier).       *)
(***************************************************************************)
\* Both arguments are dicts whose compared values are numbers, null or the
\* empty string.
NumberOrBlank(v) == v.t = "num" \/ v = None \/ v = Str("")
BlankTolerantPair(cur, alt) ==
    /\ cur.t = "dict" /\ alt.t = "dict"
    /\ \A k \in DOMAIN cur.d \cap ComparedKeys : NumberOrBlank(cur.d[k])
    /\ \A k \in DOMAIN alt.d \cap ComparedKeys : NumberOrBlank(alt.d[k])

\* The number a value is compared as: null and empty count as 0.
ComparedAs(v) == IF v.t = "num" THEN v.n ELSE 0

\* Pairs whose key is present on both sides, whatever the values.
PresentPairs(cur, alt) == ComparedKeys \cap DOMAIN cur.d \cap DOMAIN alt.d
\* Pairs with a number other than 0 on both sides.
KnownPairs(cur, alt) ==
    {k \in PresentPairs(cur, alt) : Truthy(cur.d[k]) /\ Truthy(alt.d[k])}
WonPairs(cur, alt, pairs) ==
    {k \in pairs :
        \/ k \in LowerIsBetter /\ ComparedAs(alt.d[k]) < ComparedAs(cur.d[k])
        \/ k \in HigherIsBetter /\ ComparedAs(alt.d[k]) > ComparedAs(cur.d[k])}

\* C19: every nutrient whose key is present in both mappings is a defined
\* pair, also when a value is null, empty or zero; such a value is compared
\* as 0 and the pair enters the total, so the verdict is
\* satisfied/defined >= 0.6 over all present pairs.
C19_NullCountsAsZero ==
    (pc = "done" /\ BlankTolerantPair(current_nutrients, alt_nutrients)) =>
        /\ Returned(healthierOut)
        /\ healthierOut.val.b <=>
             /\ Cardinality(PresentPairs(current_nutrients, alt_nutrients)) > 0
             /\ 10 * Cardinality(WonPairs(current_nutrients, alt_nutrients,
                                          PresentPairs(current_nutrients, alt_nutrients)))
                  >= 6 * Cardinality(PresentPairs(current_nutrients, alt_nutrients))

\* C19 witness: the alternative wins the only pair with numbers on both
\* sides, but two pairs with a null or empty value are counted as ties and
\* bring the ratio to 1 of 3: the alternative is rejected.
C19_Witness ==
    /\ pc = "done" /\ BlankTolerantPair(current_nutrients, alt_nutrients)
    /\ Cardinality(PresentPairs(current_nutrients, alt_nutrients)) = 3
    /\ \E k \in PresentPairs(current_nutrients, alt_nutrients) :
          current_nutrients.d[k] = None /\ alt_nutrients.d[k] = None
    /\ \E k \in PresentPairs(current_nutrients, alt_nutrients) :
          /\ current_nutrients.d[k].t = "num" /\ alt_nutrients.d[k].t = "num"
          /\ WonPairs(current_nutrients, alt_nutrients,
                      PresentPairs(current_nutrients, alt_nutrients)) = {k}
    /\ healthierOut = Ret(Bool(FALSE))

(***************************************************************************)
(* The streamlit session: main of Eatelligence.py and of                   *)
(* barcode_scanner_app_streamlit.py runs once per widget event, from the   *)
(* session state the runs before it left.  An event that arrives while     *)
(* main is running stops that run where it is and starts the next one.     *)
(***************************************************************************)
SessionVariants == {"Eatelligence", "barcode_scanner_app_streamlit"}

InitSession ==
    /\ variant \in SessionVariants
    /\ pc = "done"
    /\ session_state = initial_session_state
    /\ camera_input = None
    /\ clicked = FALSE /\ reset_button = FALSE
    /\ IdleScore /\ IdleHealthier /\ IdleAlt /\ IdleFrame /\ IdleFetch /\ IdleStores

\* A run of main starts with the given camera input and button state; the
\* variables that log a run are cleared.
StartRun(cam, clicked_now) ==
    /\ camera_input' = cam
    /\ clicked' = clicked_now
    /\ pc' = "start"
    /\ frame' = Unused /\ decodeLog' = <<>> /\ frameOut' = Unused
    /\ barcode' = Unused /\ fetchResponse' = Unused /\ fetchOut' = Unused
    /\ product_info' = Unused /\ health_score' = Unused
    /\ response' = Unused /\ altOut' = Unused
    /\ http_log' = <<>> /\ errors' = <<>>
    /\ handlerExc' = NoException
    /\ UNCHANGED <<variant, session_state, reset_button, scoreVars, healthierVars,
                   product_name, gemini, worker, future, deadline, placeholder>>

\* The user takes a photo.
TakePhoto == \E cam \in Photos(variant) : StartRun(cam, FALSE)

\* The user clears the photo.
ClearPhoto == camera_input # None /\ StartRun(None, FALSE)

\* The user clicks "Scan Another Product".
ClickReset == reset_button /\ StartRun(camera_input, TRUE)

\* main runs again with the camera input it had: after st.rerun() or
\* st.experimental_rerun(), and in Eatelligence.py for the widgets of the
\* stores tab.
Rerun ==
    /\ pc = "rerun" \/ variant = "Eatelligence"
    /\ StartRun(camera_input, FALSE)

NextSession ==
    \/ TakePhoto
    \/ ClearPhoto
    \/ ClickReset
    \/ Rerun
    \/ ScanBarcode
    \/ FetchProduct
    \/ ScoreProduct
    \/ SearchAlternatives

SpecSession == InitSession /\ [][NextSession]_vars

(***************************************************************************)
(* The cached product over a session (checked under SpecSession).          *)
(***************************************************************************)
CachedProduct == session_state.product_info

\* Steps of main, as opposed to the events that start a run.
ScanStep == pc = "start" /\ pc' # "start"
LookupStep == pc = "scanned" /\ pc' \notin {"scanned", "start"}

\* The camera part ended without a barcode; the lookup ended without a
\* product.
NoBarcodeStep ==
    /\ ScanStep /\ camera_input # None
    /\ frameOut' # Unused /\ Returned(frameOut') /\ ~Truthy(frameOut'.val)
LookupFailedStep == LookupStep /\ ~Truthy(fetchOut'.val)
LookupSucceededStep == LookupStep /\ Truthy(fetchOut'.val)
ResetStep == pc' = "rerun" /\ pc # "rerun"

\* One step of a session.
C21_Step ==
    /\ CachedProduct' # CachedProduct =>
          \/ LookupSucceededStep /\ CachedProduct' = fetchOut'.val
          \/ ResetStep /\ CachedProduct' = None
    /\ (NoBarcodeStep \/ LookupFailedStep) =>
          /\ CachedProduct' = CachedProduct
          /\ Truthy(CachedProduct) => pc' = "fetched"
    /\ pc' \in {"fetched", "scored"} => product_info' = CachedProduct'.d
    /\ (barcode' # Unused /\ pc' # "rerun") => session_state'.barcode_detected
    /\ CachedProduct' # None => session_state'.barcode_detected

\* C21: over any sequence of scans the cached product changes only on a
\* successful product fetch or a reset; a scan that decodes no barcode, or
\* whose lookup returns none, leaves the cached product in place, and it is
\* the one shown and scored; every decoded barcode sets barcode_detected,
\* whatever the lookup returns; the cached product is non-null only while
\* barcode_detected is true.
C21_CacheChangesOnlyOnFetchOrReset == [][C21_Step]_vars

\* C21 witness: a barcode was decoded and its lookup returned none; the
\* product cached by an earlier scan is still cached and was scored in this
\* run, and barcode_detected is true.
C21_Witness ==
    /\ pc = "done"
    /\ barcode # Unused /\ fetchOut = Ret(None)
    /\ CachedProduct # None
    /\ product_info = CachedProduct.d /\ handlerExc = NoException
    /\ session_state.barcode_detected

\* The other failed scan: no barcode decoded, the flag is still false and
\* nothing is cached.
C21_NothingDetectedYet ==
    /\ pc = "done" /\ camera_input # None
    /\ frameOut # Unused /\ frameOut = Ret(None)
    /\ ~session_state.barcode_detected /\ CachedProduct = None

\* A photo without a barcode while a product is cached: the cached product
\* stays and is scored again.
C21_KeptAfterBlankPhoto ==
    /\ pc = "done" /\ camera_input # None
    /\ frameOut # Unused /\ frameOut = Ret(None)
    /\ CachedProduct # None /\ product_info = CachedProduct.d
    /\ handlerExc = NoException

\* A reset emptied the cache.
C21_ResetEmptiesCache ==
    /\ pc = "rerun" /\ CachedProduct = None /\ ~session_state.barcode_detected

\* A run stopped between the decoding and the lookup: the flag is set, no
\* request was made and nothing is cached.
C21_StoppedBeforeLookup ==
    /\ pc = "start" /\ http_log = <<>>
    /\ session_state.barcode_detected /\ CachedProduct = None

====
